---- MODULE Spec2Model ----
(***************************************************************************)
(* Model of the AutoCandidate workflow core: the checkpoint store          *)
(* (modules/checkpoint.py), the phase controller with its interrupt        *)
(* handler, the parallel dispatcher and the integration loop (main.py),    *)
(* and the worktree operations they rely on (modules/git_ops.py).          *)
(*                                                                         *)
(* Specifications:                                                         *)
(*   Spec        the start command run repeatedly against one workspace    *)
(*   SpecStore   the CheckpointManager object driven by arbitrary calls    *)
(*   SpecPatch   FilePatcher.apply_patches called for two tasks            *)
(*   SpecTask    one call of process_task                                  *)
(*   SpecMerge   the merge loop of phase 4 with merge_feature_branch       *)
(*   SpecVerify  the verification loop and the end of phase 4              *)
(*   SpecPlan    a fresh phase 2 up to the dispatch of phase 3             *)
(***************************************************************************)
EXTENDS Integers, Sequences, FiniteSets, TLC

(***************************************************************************)
(* Bounds                                                                  *)
(***************************************************************************)
NumTasks == 2
MaxRuns == 3
MaxBlocks == 2
MaxSegs == 3
MaxFiles == 2

TaskIds == 1..NumTasks

(***************************************************************************)
(* Python values                                                           *)
(***************************************************************************)
None == "None"
EmptyDict == [k \in {} |-> 0]

\* dict.get(k, default)
Get(d, k, default) == IF k \in DOMAIN d THEN d[k] ELSE default

\* dict.update(b): top-level key merge, b wins
Update(a, b) ==
  [k \in (DOMAIN a) \cup (DOMAIN b) |-> IF k \in DOMAIN b THEN b[k] ELSE a[k]]

\* truthiness of a str-or-None value
TruthyStr(s) == s # None /\ s # ""

(***************************************************************************)
(* calculate_prompt_hash: "" for a missing file, otherwise an injective    *)
(* tagged digest of the file's bytes                                       *)
(***************************************************************************)
Missing == "<missing>"
PromptContents == {"P1", "P2"}

calculate_prompt_hash(content) ==
  IF content = Missing THEN "" ELSE "sha256:" \o content

(***************************************************************************)
(* The checkpoint file: absent, unparsable, or a JSON document             *)
(***************************************************************************)
AbsentFile == [st |-> "absent", data |-> EmptyDict]
CorruptFile == [st |-> "corrupt", data |-> EmptyDict]
OkFile(doc) == [st |-> "ok", data |-> doc]

checkpoint_exists(f) == f.st # "absent"

\* load_checkpoint handing out whatever an existing file holds, parsed or not
load_checkpoint_unchecked(f) ==
  IF ~checkpoint_exists(f) THEN [isNone |-> TRUE, d |-> EmptyDict]
  ELSE [isNone |-> FALSE, d |-> f.data]

\* Optional[dict]: isNone marks the None result
load_checkpoint(f) ==
  IF ~checkpoint_exists(f) THEN [isNone |-> TRUE, d |-> EmptyDict]
  ELSE IF f.st = "ok" THEN [isNone |-> FALSE, d |-> f.data]
  ELSE [isNone |-> TRUE, d |-> EmptyDict]

\* "not checkpoint_data"
Falsy(cd) == cd.isNone \/ DOMAIN cd.d = {}

\* clear_checkpoint leaving the file in place
clear_checkpoint_keep(f) == f

clear_checkpoint(f) == AbsentFile

\* validate_checkpoint without the repo path comparison
validate_checkpoint_norepo(f, prompt_hash, workspace, repo_path) ==
  LET checkpoint_data == load_checkpoint(f) IN
  IF Falsy(checkpoint_data) THEN FALSE
  ELSE IF Get(checkpoint_data.d, "workspace", None) # workspace THEN FALSE
  ELSE LET saved_hash == Get(checkpoint_data.d, "prompt_hash", None) IN
       IF TruthyStr(saved_hash) /\ saved_hash # prompt_hash THEN FALSE
       ELSE TRUE

\* validate_checkpoint without the prompt hash comparison
validate_checkpoint_nohash(f, prompt_hash, workspace, repo_path) ==
  LET checkpoint_data == load_checkpoint(f) IN
  IF Falsy(checkpoint_data) THEN FALSE
  ELSE IF Get(checkpoint_data.d, "workspace", None) # workspace THEN FALSE
  ELSE IF Get(checkpoint_data.d, "repo_path", None) # repo_path THEN FALSE
  ELSE TRUE

validate_checkpoint(f, prompt_hash, workspace, repo_path) ==
  LET checkpoint_data == load_checkpoint(f) IN
  IF Falsy(checkpoint_data) THEN FALSE
  ELSE IF Get(checkpoint_data.d, "workspace", None) # workspace THEN FALSE
  ELSE IF Get(checkpoint_data.d, "repo_path", None) # repo_path THEN FALSE
  ELSE LET saved_hash == Get(checkpoint_data.d, "prompt_hash", None) IN
       IF TruthyStr(saved_hash) /\ saved_hash # prompt_hash THEN FALSE
       ELSE TRUE

\* get_current_phase answering the highest phase ever completed
get_current_phase_highest(f) ==
  LET checkpoint_data == load_checkpoint(f)
      done == Get(checkpoint_data.d, "phases_completed", {})
  IN IF Falsy(checkpoint_data) \/ done = {} THEN 0
     ELSE CHOOSE m \in done : \A x \in done : x <= m

get_current_phase(f) ==
  LET checkpoint_data == load_checkpoint(f) IN
  IF Falsy(checkpoint_data) THEN 0
  ELSE Get(checkpoint_data.d, "current_phase", 0)

get_phases_completed(f) ==
  LET checkpoint_data == load_checkpoint(f) IN
  IF Falsy(checkpoint_data) THEN {}
  ELSE Get(checkpoint_data.d, "phases_completed", {})

\* save_checkpoint raises TypeError when the file exists but load returned
\* None (checkpoint_data["checkpoint_time"] = ... on None)
SaveRaises(f) == checkpoint_exists(f) /\ load_checkpoint(f).isNone

\* save_checkpoint starting from a fresh document every time, keeping only
\* the phases completed
SaveDoc_nomerge(f, workspace_path, phase, state) ==
  LET old == IF checkpoint_exists(f) THEN load_checkpoint(f).d ELSE EmptyDict
  IN Update([version |-> "1.0", workspace |-> workspace_path,
             current_phase |-> phase,
             phases_completed |-> Get(old, "phases_completed", {}) \cup {phase}],
            state)

\* save_checkpoint recording the saved phase as the only completed one
SaveDoc_onlyphase(f, workspace_path, phase, state) ==
  LET base == IF checkpoint_exists(f) THEN load_checkpoint(f).d
              ELSE [version |-> "1.0", workspace |-> workspace_path]
  IN Update(Update(base, [current_phase |-> phase, phases_completed |-> {phase}]),
            state)

\* the document save_checkpoint writes (checkpoint_time left out)
SaveDoc(f, workspace_path, phase, state) ==
  LET base == IF checkpoint_exists(f) THEN load_checkpoint(f).d
              ELSE [version |-> "1.0", workspace |-> workspace_path]
      stamped == Update(base,
                   [current_phase |-> phase,
                    phases_completed |->
                       Get(base, "phases_completed", {}) \cup {phase}])
  IN Update(stamped, state)

save_checkpoint(f, workspace_path, phase, state) ==
  OkFile(SaveDoc(f, workspace_path, phase, state))

(***************************************************************************)
(* State                                                                   *)
(***************************************************************************)
VARIABLES
  \* -- SpecPatch: two dispatched tasks and the last apply_patches call
  pids,             \* task id of each of the two tasks
  patch,            \* who called, on which root, what was written and reported
  \* -- SpecTask: one call of process_task
  tq,               \* its arguments, how each of its steps goes, its result
  \* -- SpecMerge: the merge loop of phase 4 on the repository
  mq,               \* repository, branches to merge, resolver answers, merged set
  \* -- SpecVerify: the verification loop and the end of phase 4
  vq,               \* loop counters, test and fix history, reports, checkpoint
  \* -- SpecPlan: the planning of phase 2 up to the dispatch of phase 3
  pq,               \* breakdown, review answer, final tasks, checkpoint
  \* -- SpecStore: one CheckpointManager and its file
  sfile,            \* the checkpoint file of the manager's workspace
  smgr,             \* CheckpointManager.workspace_path
  sres,             \* the last call and what it returned
  \* -- Spec: the workspace on disk, kept from run to run
  ckptFile,         \* <workspace>/.autocandidate_checkpoint.json
  worktrees,        \* task ids whose worktree-<id> directory exists
  branches,         \* task ids whose feat/<id> branch exists in target_repo
  promptFile,       \* contents of the prompt file
  runNo,            \* number of start commands issued so far
  \* -- Spec: the stubs (fixed for a behaviour: deterministic collaborators)
  reviewOracle,     \* what review_and_refine_plan answers
  statusOracle,     \* the status process_task ends with, per task
  mergeOracle,      \* whether merge_feature_branch succeeds, per task
  \* -- Spec: the running process
  pc,               \* position of the main thread ("off": no process)
  hpc,              \* position of signal_handler ("none": not entered)
  resume,           \* --resume
  prompt_hash,
  resume_from_phase,
  checkpoint_data,  \* the document loaded at startup (Optional[dict])
  ctx,              \* interrupt_context
  wr,               \* the open(checkpoint_file, "w") in progress, if any
  tasks,            \* ids of the task list in use
  results,          \* list of task results
  worker,           \* state of the future of each task
  mergeTodo,        \* tasks_to_merge not yet attempted
  merged_branches,
  attempt,          \* index of the verification loop
  tests_passed,
  \* -- Spec: observations (not program state)
  obs

patchvars == <<pids, patch>>
unitvars == <<tq, mq, vq, pq>>
svars == <<sfile, smgr, sres, patchvars, unitvars>>
diskvars == <<ckptFile, worktrees, branches, promptFile, runNo>>
oracles == <<reviewOracle, statusOracle, mergeOracle>>
procvars == <<pc, hpc, resume, prompt_hash, resume_from_phase, checkpoint_data,
              ctx, wr, tasks, results, worker, mergeTodo, merged_branches,
              attempt, tests_passed>>
pvars == <<diskvars, oracles, procvars, obs>>
vars == <<svars, pvars>>

(***************************************************************************)
(* SpecPatch: FilePatcher.apply_patches as process_task calls it for two   *)
(* dispatched tasks, and as the verification loop calls it on the          *)
(* repository.  A name is a sequence of symbols (so that one name can be a *)
(* string prefix of another), an absolute path a sequence of names.        *)
(***************************************************************************)
Slots == {"A", "B"}
PatchTaskIds == {<<"1">>, <<"1", "0">>, <<"2">>}
PinnedIds == [s \in Slots |-> IF s = "A" THEN <<"1">> ELSE <<"2">>]

workspace_dir == << <<"ws">> >>
repo_path == workspace_dir \o << <<"target_repo">> >>

\* main.py 175-176: f"feat/{task_id}", os.path.join(workspace_dir, f"worktree-{task_id}")
feature_branch(task_id) == <<"feat/">> \o task_id
worktree_path(task_id) == workspace_dir \o << <<"worktree-">> \o task_id >>

\* segments of a relative path in a file block: "..", or a name
Up == <<"..">>
Segs == {Up, <<"f">>, <<"worktree-", "1", "0">>}
\* rel_path: absolute or not, and its segments
RelPaths ==
  {[abs |-> FALSE, segs |-> q] : q \in UNION {[1..n -> Segs] : n \in 1..MaxSegs}}
    \cup {[abs |-> TRUE, segs |-> <<g>>] : g \in Segs \ {Up}}
\* the file blocks of a response, by their paths
Responses == UNION {[1..n -> RelPaths] : n \in 0..MaxBlocks}

\* os.path.abspath(os.path.join(root_dir, rel_path)): an absolute rel_path
\* replaces the root; ".." drops the last name (none at "/")
RECURSIVE NormPath(_, _)
NormPath(stack, segs) ==
  IF segs = <<>> THEN stack
  ELSE IF Head(segs) = Up
       THEN NormPath(IF stack = <<>> THEN stack
                     ELSE SubSeq(stack, 1, Len(stack) - 1), Tail(segs))
       ELSE NormPath(Append(stack, Head(segs)), Tail(segs))

full_path(root_dir, rel_path) ==
  NormPath(IF rel_path.abs THEN <<>> ELSE root_dir, rel_path.segs)

IsPrefix(a, b) == Len(a) <= Len(b) /\ SubSeq(b, 1, Len(a)) = a

\* str.startswith on the "/"-joined strings: all names of the root but the
\* last are names of the path, and the last is a string prefix of the
\* path's name at that place
startswith(path, root_dir) ==
  \/ root_dir = <<>>
  \/ /\ Len(path) >= Len(root_dir)
     /\ \A i \in 1..(Len(root_dir) - 1) : path[i] = root_dir[i]
     /\ IsPrefix(root_dir[Len(root_dir)], path[Len(root_dir)])

\* the path is the root directory or lies below it
Inside(root_dir, path) == IsPrefix(root_dir, path)

\* the directories on disk while the tasks run: open(full_path, 'w') on
\* one of them raises, which apply_patches catches
Dirs(ids) ==
  {<<>>, workspace_dir, repo_path} \cup {worktree_path(ids[s]) : s \in Slots}

\* coder.py 30-49: the loop over the file blocks; written: the files
\* written, modified_files: the paths reported
RECURSIVE apply_patches(_, _, _)
apply_patches(root_dir, dirs, matches) ==
  IF matches = <<>> THEN [written |-> {}, modified_files |-> <<>>]
  ELSE LET rel_path == Head(matches)
           full == full_path(root_dir, rel_path)
           rest == apply_patches(root_dir, dirs, Tail(matches))
       IN IF ~startswith(full, root_dir) \/ full \in dirs THEN rest
          ELSE [written |-> {full} \cup rest.written,
                modified_files |-> <<rel_path>> \o rest.modified_files]

NoPatch == [by |-> "none", root |-> <<>>, written |-> {}, modified_files |-> <<>>]

PatchInit ==
  /\ pids \in {f \in [Slots -> PatchTaskIds] : f["A"] # f["B"]}
  /\ patch = NoPatch

\* main.py 213-215: the executor of a task applies the response it got to
\* the task's worktree (one call is followed in each behaviour)
TaskApplyPatches(slot) ==
  /\ patch.by = "none"
  /\ \E code_response \in Responses :
    LET root_dir == worktree_path(pids[slot])
        r == apply_patches(root_dir, Dirs(pids), code_response)
    IN /\ patch' = [by |-> slot, root |-> root_dir, written |-> r.written,
                    modified_files |-> r.modified_files]
       /\ UNCHANGED pids

\* main.py 719, 744: the verification loop applies a fix to the repository
RepoApplyPatches ==
  /\ patch.by = "none"
  /\ \E fix_response \in Responses :
    LET r == apply_patches(repo_path, Dirs(pids), fix_response)
    IN /\ patch' = [by |-> "repo", root |-> repo_path, written |-> r.written,
                    modified_files |-> r.modified_files]
       /\ UNCHANGED pids

PatchNext ==
  \/ \E slot \in Slots : TaskApplyPatches(slot)
  \/ RepoApplyPatches

(***************************************************************************)
(* SpecTask: process_task called once, each of its steps going well or     *)
(* raising                                                                 *)
(***************************************************************************)
\* the steps of process_task in the order of the code: feature branch
\* (184-190), worktree (193), generation (196-202), patch application
\* (214-215), lint (222-223), commit (226-230)
TaskSteps == <<"branch", "worktree", "generate", "apply", "lint", "commit">>
StepNames == {TaskSteps[i] : i \in 1..Len(TaskSteps)}

\* how a call goes: for each step whether it raises, what the provider
\* answers, how many files the patcher reports, what the linter says
TaskRuns ==
  [raises : SUBSET StepNames,
   code_response : {None, "", "blocks"},
   modified : 0..MaxFiles,
   lint_success : BOOLEAN]

\* what an earlier attempt at the task may have left: the feature branch
\* (absent, at the tip of the base branch, or ahead of it by the attempt's
\* commit) and the directory worktree-<id> (absent, a registered worktree
\* that is clean or holds uncommitted files, or a plain directory)
HeadStates == {"absent", "base", "ahead"}
WorktreeStates == {"absent", "clean", "dirty", "dir"}
FirstAttempt == [heads |-> "absent", wt |-> "absent"]
PreStates == [heads : HeadStates, wt : WorktreeStates]

\* main.py 185-189: create_head at the base commit, or set_commit to it
create_or_reset_head(heads) == "base"

\* git worktree add -f -B <branch> <path> (git_ops.py 112): refuses a path
\* that exists, otherwise checks the branch out at HEAD
worktree_add(wt) ==
  IF wt = "absent" THEN [ok |-> TRUE, wt |-> "clean"] ELSE [ok |-> FALSE, wt |-> wt]

\* a setup that goes straight to git worktree add
setup_worktree_keep(wt) == worktree_add(wt)

\* git_ops.py 85-118: an existing path is removed first, by git worktree
\* remove -f or, when git refuses (a plain directory), by rmtree and prune
setup_worktree(wt) == worktree_add(IF wt # "absent" THEN "absent" ELSE wt)

\* the call as it goes on the given workspace: a worktree that cannot be
\* set up raises in step 2
EffectiveRun(pre, run) ==
  IF setup_worktree(pre.wt).ok THEN run
  ELSE [run EXCEPT !.raises = @ \cup {"worktree"}]

\* a try block that opens after the branch and the worktree are set up
InTry_late(step) == step \notin {"branch", "worktree"}

\* main.py 181-240: the steps inside the try block of process_task
InTry(step) == step \in StepNames

\* a call that goes through every step whatever the steps before gave
StepRuns_always(run, step) == TRUE

\* whether the call gets to the step: code generation answering nothing
\* returns before the patcher, nothing modified means nothing to commit
StepRuns(run, step) ==
  CASE step \in {"apply", "lint"} -> TruthyStr(run.code_response)
    [] step = "commit" -> TruthyStr(run.code_response) /\ run.modified > 0
    [] OTHER -> TRUE

\* the first step of the call that raises ("none": no step does)
RECURSIVE FirstRaise(_, _)
FirstRaise(run, steps) ==
  IF steps = <<>> THEN "none"
  ELSE IF StepRuns(run, Head(steps)) /\ Head(steps) \in run.raises THEN Head(steps)
  ELSE FirstRaise(run, Tail(steps))

\* str(e) of the exception a step raises
ErrorOf(step) == "error in " \o step

\* an executor that grades a task without modified files as WARN
process_task_nofiles(task_id, run) ==
  [raised |-> FALSE,
   result |-> [id |-> task_id,
               status |-> IF run.lint_success /\ run.modified > 0
                          THEN "SUCCESS" ELSE "WARN",
               branch |-> feature_branch(task_id),
               files_changed |-> run.modified,
               lint |-> run.lint_success]]

\* main.py 158-247: what the call hands back: a result dict, or the
\* exception that leaves it
process_task(task_id, run) ==
  LET failing == FirstRaise(run, TaskSteps)
      branch_name == feature_branch(task_id)
  IN IF failing # "none"
     THEN IF InTry(failing)
          THEN [raised |-> FALSE,
                result |-> [id |-> task_id, status |-> "ERROR",
                            branch |-> branch_name, error |-> ErrorOf(failing)]]
          ELSE [raised |-> TRUE, result |-> EmptyDict]
     ELSE IF ~TruthyStr(run.code_response)
     THEN [raised |-> FALSE,
           result |-> [id |-> task_id, status |-> "FAILED",
                       branch |-> branch_name, error |-> "LLM Gen Failed"]]
     ELSE [raised |-> FALSE,
           result |-> [id |-> task_id,
                       status |-> IF run.lint_success THEN "SUCCESS" ELSE "WARN",
                       branch |-> branch_name,
                       files_changed |-> run.modified,
                       lint |-> run.lint_success]]

\* what one step does to the branch and the worktree of the task
StepEffect(s, run, step) ==
  LET done == [s EXCEPT !.ran = @ \cup {step}]
  IN CASE step = "branch" -> [done EXCEPT !.heads = create_or_reset_head(@)]
       [] step = "worktree" ->
            [done EXCEPT !.heads = "base", !.wt = setup_worktree(@).wt]
       [] step = "apply" ->
            [done EXCEPT !.wt = IF run.modified > 0 THEN "dirty" ELSE @]
       [] step = "commit" -> [done EXCEPT !.heads = "ahead", !.wt = "clean"]
       [] OTHER -> done

\* main.py 181-238: the steps in order, up to the first that raises
RECURSIVE RunSteps(_, _, _)
RunSteps(s, run, steps) ==
  IF steps = <<>> THEN s
  ELSE IF ~StepRuns(run, Head(steps)) THEN RunSteps(s, run, Tail(steps))
  ELSE IF Head(steps) \in run.raises THEN s
  ELSE RunSteps(StepEffect(s, run, Head(steps)), run, Tail(steps))

\* branch, worktree and steps completed once the call on workspace pre is over
task_effects(pre, run) ==
  RunSteps([heads |-> pre.heads, wt |-> pre.wt, ran |-> {}],
           EffectiveRun(pre, run), TaskSteps)

NoTask == [pc |-> "none", id |-> <<>>, run |-> EmptyDict, returned |-> 0,
           raised |-> FALSE, result |-> EmptyDict,
           pre |-> FirstAttempt, heads |-> "absent", wt |-> "absent",
           ran |-> {}]

TaskInit ==
  \E task_id \in PatchTaskIds, run \in TaskRuns, pre \in PreStates :
    tq = [NoTask EXCEPT !.pc = "called", !.id = task_id, !.run = run,
                        !.pre = pre, !.heads = pre.heads, !.wt = pre.wt]

\* the future of the task runs process_task to its end
ProcessTask ==
  /\ tq.pc = "called"
  /\ LET r == process_task(tq.id, EffectiveRun(tq.pre, tq.run))
         e == task_effects(tq.pre, tq.run)
     IN tq' = [tq EXCEPT !.pc = "ended",
                         !.returned = IF r.raised THEN 0 ELSE 1,
                         !.raised = r.raised, !.result = r.result,
                         !.heads = e.heads, !.wt = e.wt, !.ran = e.ran]

TaskNext == ProcessTask

(***************************************************************************)
(* SpecMerge: the merge loop of phase 4 on the repository, with            *)
(* merge_feature_branch and the git commands it issues                     *)
(***************************************************************************)
\* the repository as the merge sees it: the branches merged into the base
\* branch, the branch of a merge that is in progress (0: none), and the
\* conflicted files whose resolution is written and staged
CleanRepo == [base |-> {}, merging |-> 0, resolved |-> {}]

\* what the resolver answers for a conflicted file: a resolution, an empty
\* response, or reading and resolving the file raises
Answers == {"text", "empty", "raise"}

\* how the merge of one branch goes: whether the branch exists, what git
\* merge does (merges cleanly, stops on conflicts, fails otherwise) and, for
\* each conflicted file in the order of git diff, the resolver's answer
MergeRuns ==
  [exists : BOOLEAN, merge : {"clean", "error"}, answers : {<<>>}]
  \cup [exists : BOOLEAN, merge : {"conflict"},
         answers : UNION {[1..n -> Answers] : n \in 1..MaxFiles}]

\* git merge <source_branch> (git_ops.py 161)
git_merge(repo, source_branch, how) ==
  CASE how = "clean" -> [repo EXCEPT !.base = @ \cup {source_branch}]
    [] how = "conflict" -> [repo EXCEPT !.merging = source_branch]
    [] how = "error" -> repo

\* git add <file_path> after the resolution is written (git_ops.py 191-193)
git_add(repo, file_path) == [repo EXCEPT !.resolved = @ \cup {file_path}]

\* git commit concluding the merge (git_ops.py 205)
git_commit(repo) ==
  [repo EXCEPT !.base = @ \cup {repo.merging}, !.merging = 0, !.resolved = {}]

\* a merge --abort that forgets the merge and leaves index and files alone
git_merge_abort_keep(repo) == [repo EXCEPT !.merging = 0]

\* git merge --abort (git_ops.py 197, 201, 212): index and working tree go
\* back to the state before the merge; without a merge in progress the
\* command fails, which line 213 ignores
git_merge_abort(repo) ==
  IF repo.merging # 0 THEN [repo EXCEPT !.merging = 0, !.resolved = {}] ELSE repo

\* git_ops.py 178-207: the conflicted files one by one, from the i-th on
RECURSIVE ResolveFrom(_, _, _)
ResolveFrom(repo, answers, i) ==
  IF i > Len(answers) THEN [ok |-> TRUE, repo |-> git_commit(repo)]
  ELSE IF answers[i] = "text" THEN ResolveFrom(git_add(repo, i), answers, i + 1)
  ELSE [ok |-> FALSE, repo |-> git_merge_abort(repo)]

\* git_ops.py 147-215
merge_feature_branch(repo, source_branch, run) ==
  LET merged == git_merge(repo, source_branch, run.merge)
  IN CASE run.merge = "clean" -> [ok |-> TRUE, repo |-> merged]
       [] run.merge = "error" -> [ok |-> FALSE, repo |-> git_merge_abort(merged)]
       [] run.merge = "conflict" -> ResolveFrom(merged, run.answers, 1)

\* the branches of the mergeable tasks in the order main.py 676 sorts them
AllBranches == [i \in 1..NumTasks |-> i]

NoMerge == [pc |-> "none", repo |-> CleanRepo, runs |-> <<>>, todo |-> <<>>,
            attempted |-> <<>>, merged_branches |-> {}]

\* main.py 690-693: the loop starts on a clean repository with the list
\* tasks_to_merge
MergeInit ==
  \E runs \in [TaskIds -> MergeRuns] :
    mq = [NoMerge EXCEPT !.pc = "loop", !.runs = runs, !.todo = AllBranches]

\* main.py 694-713: one iteration of the merge loop
MergeIteration ==
  /\ mq.pc = "loop" /\ mq.todo # <<>>
  /\ LET branch == Head(mq.todo)
         run == mq.runs[branch]
         r == IF run.exists THEN merge_feature_branch(mq.repo, branch, run)
              ELSE [ok |-> FALSE, repo |-> mq.repo]
     IN mq' = [mq EXCEPT !.repo = r.repo,
                         !.todo = Tail(@),
                         !.attempted = IF run.exists THEN Append(@, branch) ELSE @,
                         !.merged_branches = IF r.ok THEN @ \cup {branch} ELSE @]

\* main.py 715: the loop is over
MergeDone ==
  /\ mq.pc = "loop" /\ mq.todo = <<>>
  /\ mq' = [mq EXCEPT !.pc = "done"]

MergeLoopNext == MergeIteration \/ MergeDone

\* the planning of phase 2, not started
NoPlan ==
  [pc |-> "none", plan |-> {}, review |-> [kind |-> "OK", tasks |-> {}],
   tasks |-> {}, dispatched |-> {}, file |-> AbsentFile, rc |-> 0]

\* the verification loop and the end of phase 4, not started
NoVerify ==
  [pc |-> "none", attempt |-> 0, tests_passed |-> FALSE,
   tests |-> <<>>, fixes |-> <<>>, commits |-> 0,
   merged_branches |-> {}, verification_agent |-> "gemini",
   reports |-> [failure |-> "absent", verification |-> "absent"],
   file |-> AbsentFile, returned |-> FALSE]

(***************************************************************************)
(* SpecStore: the CheckpointManager driven by arbitrary calls              *)
(***************************************************************************)
Workspaces == {"W", "W2"}
RepoPaths == {"W/target_repo", "W2/target_repo"}
Hashes == {calculate_prompt_hash(c) : c \in PromptContents \cup {Missing}}
StorePhases == 1..4

\* states handed to save_checkpoint: a phase-1 state with or without the
\* optional keys, and a later phase's sub-state
StoreStates ==
  {EmptyDict}
  \cup {[repo_path |-> r] : r \in RepoPaths}
  \cup {[repo_path |-> r, prompt_hash |-> h] : r \in RepoPaths, h \in Hashes}
  \cup {[phase_2_state |-> [plan_data |-> [tasks |-> {1}], task_spec_files |-> {1}]]}
  \cup {[phase_3_state |-> [base_branch |-> "solution-v1", task_results |-> <<>>]]}

\* the last call: its name, its arguments (hash, ws, rp; keys: the top-level
\* keys of the state saved) and its result (ok, num, set)
NoCall ==
  [op |-> "none", hash |-> "", ws |-> "", rp |-> "", keys |-> {},
   ok |-> FALSE, num |-> 0, set |-> {}]

StoreInit ==
  /\ sfile = AbsentFile
  /\ smgr \in Workspaces
  /\ sres = NoCall

\* save_checkpoint(phase, state); a TypeError leaves the file as it was
StoreSave ==
  \E phase \in StorePhases, state \in StoreStates :
    /\ IF SaveRaises(sfile)
       THEN /\ sfile' = sfile
            /\ sres' = [NoCall EXCEPT !.op = "save", !.num = phase,
                                      !.keys = DOMAIN state]
       ELSE /\ sfile' = save_checkpoint(sfile, smgr, phase, state)
            /\ sres' = [NoCall EXCEPT !.op = "save", !.num = phase,
                                      !.keys = DOMAIN state, !.ok = TRUE]
    /\ UNCHANGED smgr

\* a write cut short after open(checkpoint_file, "w") truncated the file
StoreTruncate ==
  /\ ~SaveRaises(sfile)
  /\ sfile' = CorruptFile
  /\ sres' = [NoCall EXCEPT !.op = "truncate"]
  /\ UNCHANGED smgr

StoreClear ==
  /\ sfile' = IF checkpoint_exists(sfile) THEN clear_checkpoint(sfile) ELSE sfile
  /\ sres' = [NoCall EXCEPT !.op = "clear"]
  /\ UNCHANGED smgr

StoreValidate ==
  \E h \in Hashes, w \in Workspaces, r \in RepoPaths :
    /\ sres' = [NoCall EXCEPT !.op = "validate", !.hash = h, !.ws = w, !.rp = r,
                              !.ok = validate_checkpoint(sfile, h, w, r)]
    /\ UNCHANGED <<sfile, smgr>>

\* load_checkpoint(); ok: a document was returned, not None
StoreLoad ==
  /\ sres' = [NoCall EXCEPT !.op = "load", !.ok = ~load_checkpoint(sfile).isNone]
  /\ UNCHANGED <<sfile, smgr>>

StoreGetPhase ==
  /\ sres' = [NoCall EXCEPT !.op = "get_current_phase",
                            !.num = get_current_phase(sfile)]
  /\ UNCHANGED <<sfile, smgr>>

StoreGetPhases ==
  /\ sres' = [NoCall EXCEPT !.op = "get_phases_completed",
                            !.set = get_phases_completed(sfile)]
  /\ UNCHANGED <<sfile, smgr>>

StoreNext ==
  \/ StoreSave
  \/ StoreTruncate
  \/ StoreClear
  \/ StoreValidate
  \/ StoreLoad
  \/ StoreGetPhase
  \/ StoreGetPhases

(***************************************************************************)
(* Spec: the start command, run repeatedly against one workspace           *)
(***************************************************************************)
max_retries == 2

Workspace == "W"
RepoPath == "W/target_repo"
BaseBranch == "solution-v1"

\* answers of review_and_refine_plan: "OK", or a refined plan
RefinedPlans == {{1}}
ReviewOutcomes ==
  {[refined |-> FALSE, tasks |-> {}]}
  \cup {[refined |-> TRUE, tasks |-> S] : S \in RefinedPlans}

Statuses == {"SUCCESS", "ERROR"}

\* the stub behaviours explored: the review says OK or refines the plan;
\* every task succeeds or task 1 fails; every merge succeeds or that of
\* feat/1 fails
StatusOutcomes ==
  {[t \in TaskIds |-> IF t \in F THEN "ERROR" ELSE "SUCCESS"] : F \in {{}, {1}}}
MergeOutcomes ==
  {[t \in TaskIds |-> t \notin F] : F \in {{}, {1}}}
Scenarios ==
  [review : ReviewOutcomes, status : StatusOutcomes, merge : MergeOutcomes]

\* an integration that merges whatever result it is given
Mergeable_any(status) == TRUE

\* whether process_task's status is one the integration merges
Mergeable(status) == status \in {"SUCCESS", "WARN"}

\* the prompt file starts as P1 and may be edited (to P2) between runs
EditedPrompt == "P2"

NoneData == [isNone |-> TRUE, d |-> EmptyDict]
NoWrite == [open |-> FALSE, doc |-> EmptyDict, state |-> EmptyDict]
NoCtx == [current_phase |-> 0, phase_state |-> EmptyDict, interrupted |-> FALSE]

NoObs ==
  [lastSaved |-> 0,       \* phase of the last completed save since a clear
   did |-> {},            \* phases whose work this run performed
   hsaved |-> 0,          \* phase the interrupt handler saved (0: none)
   second |-> FALSE,      \* a second SIGINT was delivered to this process
   startFile |-> "absent", \* the checkpoint file found by the resume check
   startHash |-> "",      \* and the prompt hash it recorded ("": none)
   kept |-> {},           \* worktrees the teardown of phase 3 failed to remove
   startrc |-> 0]         \* exit code of a start that failed its validation

\* ascending list of a set of task ids (list.sort(key=id))
RECURSIVE SortedIds(_)
SortedIds(S) ==
  IF S = {} THEN <<>>
  ELSE LET m == CHOOSE x \in S : \A y \in S : x <= y
       IN <<m>> \o SortedIds(S \ {m})

Range(seq) == {seq[i] : i \in 1..Len(seq)}
Ids(rs) == {rs[i].id : i \in 1..Len(rs)}
MarkCompleted(rs) == [i \in 1..Len(rs) |-> [rs[i] EXCEPT !.completed = TRUE]]

InFlight == {t \in TaskIds : worker[t] \in {"queued", "running"}}
Batch == {t \in TaskIds : worker[t] # "none"}

\* the phase_k_state dictionaries of start()
phase_1_state ==
  [workspace |-> Workspace, repo_path |-> RepoPath, prompt_hash |-> prompt_hash]
Phase2State(plan_tasks, final_tasks) ==
  [phase_2_state |->
     [plan_data |-> [tasks |-> plan_tasks], task_spec_files |-> final_tasks]]
Phase3State(rs) ==
  [phase_3_state |-> [base_branch |-> BaseBranch, task_results |-> rs]]
Phase4State(merged, passed) ==
  [phase_4_state |->
     [merged_branches |-> merged,
      test_attempt |-> IF ~passed THEN max_retries + 1 ELSE 1,
      tests_passed |-> passed]]

\* whether interrupt_context["phase_state"] is the dispatcher's snapshot,
\* whose task_results is the very list the dispatcher appends to
SnapshotAliased(c) == "phase_3_state" \in DOMAIN c.phase_state

Init ==
  /\ sfile = AbsentFile /\ smgr = Workspace /\ sres = NoCall
  /\ pids = PinnedIds /\ patch = NoPatch
  /\ tq = NoTask /\ mq = NoMerge /\ vq = NoVerify /\ pq = NoPlan
  /\ ckptFile = AbsentFile
  /\ worktrees = {}
  /\ branches = {}
  /\ promptFile = "P1"
  /\ runNo = 0
  /\ \E sc \in Scenarios :
       /\ reviewOracle = sc.review
       /\ statusOracle = sc.status
       /\ mergeOracle = sc.merge
  /\ pc = "off" /\ hpc = "none"
  /\ resume = FALSE
  /\ prompt_hash = ""
  /\ resume_from_phase = 1
  /\ checkpoint_data = NoneData
  /\ ctx = NoCtx
  /\ wr = NoWrite
  /\ tasks = {}
  /\ results = <<>>
  /\ worker = [t \in TaskIds |-> "none"]
  /\ mergeTodo = <<>>
  /\ merged_branches = {}
  /\ attempt = 0
  /\ tests_passed = FALSE
  /\ obs = NoObs

\* main.py 266-352: a new process; copy_repo/clone_repo delete and re-create
\* target_repo, the interrupt context is initialised, the prompt is hashed
StartRun ==
  \E r \in BOOLEAN, p \in {promptFile, EditedPrompt} :
    /\ pc = "off"
    /\ runNo < MaxRuns
    /\ runNo' = runNo + 1
    /\ resume' = r
    /\ promptFile' = p
    /\ prompt_hash' = calculate_prompt_hash(p)
    /\ branches' = {}
    /\ ctx' = [current_phase |-> 1, phase_state |-> EmptyDict, interrupted |-> FALSE]
    /\ pc' = "resume_check"
    /\ resume_from_phase' = 1
    /\ checkpoint_data' = NoneData
    /\ tasks' = {} /\ results' = <<>>
    /\ worker' = [t \in TaskIds |-> "none"]
    /\ mergeTodo' = <<>> /\ merged_branches' = {}
    /\ attempt' = 0 /\ tests_passed' = FALSE
    /\ obs' = [NoObs EXCEPT !.lastSaved = obs.lastSaved]
    /\ UNCHANGED <<svars, ckptFile, worktrees, oracles, hpc, wr>>

\* the ways startup validation fails: neither or both of --repo-url and
\* --local-path (275-280), an API key missing (288-300), the local path
\* missing (330-332), clone_repo or copy_repo raising (326, 333, 338-339),
\* the prompt file missing (344-346)
StartupFailures == {"args", "api_key", "local_path", "clone", "prompt"}

\* git_ops.py 19-21, 39-41: clone_repo and copy_repo delete an existing
\* target_repo before anything else
WipesRepo(kind) == kind \in {"clone", "prompt"}

\* a start that runs its resume check before it validates its arguments
StartFails_late ==
  \E kind \in StartupFailures, r \in BOOLEAN :
    /\ pc = "off"
    /\ runNo < MaxRuns
    /\ runNo' = runNo + 1
    /\ branches' = IF WipesRepo(kind) THEN {} ELSE branches
    /\ ckptFile' =
         IF /\ r /\ checkpoint_exists(ckptFile)
            /\ ~validate_checkpoint(ckptFile, calculate_prompt_hash(EditedPrompt),
                                    Workspace, RepoPath)
         THEN clear_checkpoint(ckptFile) ELSE ckptFile
    /\ obs' = [NoObs EXCEPT !.lastSaved = obs.lastSaved, !.startrc = 1]
    /\ UNCHANGED <<svars, worktrees, promptFile, oracles, procvars>>

\* main.py 266-346: a new process whose startup validation fails: raise
\* typer.Exit(1) before the resume check and before phase 1
StartFails ==
  \E kind \in StartupFailures :
    /\ pc = "off"
    /\ runNo < MaxRuns
    /\ runNo' = runNo + 1
    /\ branches' = IF WipesRepo(kind) THEN {} ELSE branches
    /\ obs' = [NoObs EXCEPT !.lastSaved = obs.lastSaved, !.startrc = 1]
    /\ UNCHANGED <<svars, ckptFile, worktrees, promptFile, oracles, procvars>>

\* what the resume check finds on disk, noted in the observations
Found(o) ==
  [o EXCEPT !.startFile = ckptFile.st,
            !.startHash = Get(ckptFile.data, "prompt_hash", "")]

\* main.py 354-372
ResumeCheck ==
  /\ pc = "resume_check" /\ hpc = "none"
  /\ IF resume /\ checkpoint_exists(ckptFile)
     THEN IF validate_checkpoint(ckptFile, prompt_hash, Workspace, RepoPath)
          THEN /\ checkpoint_data' = load_checkpoint(ckptFile)
               /\ resume_from_phase' = get_current_phase(ckptFile) + 1
               /\ ckptFile' = ckptFile
               /\ obs' = Found(obs)
          ELSE /\ checkpoint_data' = NoneData
               /\ resume_from_phase' = 1
               /\ ckptFile' = clear_checkpoint(ckptFile)
               /\ obs' = [Found(obs) EXCEPT !.lastSaved = 0]
     ELSE /\ checkpoint_data' = NoneData
          /\ resume_from_phase' = 1
          /\ ckptFile' = ckptFile
          /\ obs' = Found(obs)
  /\ pc' = "phase1"
  /\ UNCHANGED <<svars, worktrees, branches, promptFile, runNo, oracles, hpc,
                 resume, prompt_hash, ctx, wr, tasks, results, worker,
                 mergeTodo, merged_branches, attempt, tests_passed>>

\* a phase that goes on without writing its checkpoint
BeginSave_skip(phase, state, wpc) ==
  /\ UNCHANGED ckptFile
  /\ wr' = [open |-> FALSE, doc |-> SaveDoc(ckptFile, Workspace, phase, state),
            state |-> state]
  /\ pc' = CASE wpc = "write1" -> "post1" [] wpc = "write2" -> "post2"
              [] wpc = "write3" -> "post3" [] wpc = "write4" -> "finish"

\* checkpoint.py 35-58 as called by the main thread: load-or-initialise,
\* merge, then open(checkpoint_file, "w"), which truncates the file; an
\* unparsable existing file makes the call raise (uncaught: the process dies)
BeginSave(phase, state, wpc) ==
  IF SaveRaises(ckptFile)
  THEN /\ pc' = "off"
       /\ UNCHANGED <<ckptFile, wr>>
  ELSE /\ ckptFile' = CorruptFile
       /\ wr' = [open |-> TRUE,
                 doc |-> SaveDoc(ckptFile, Workspace, phase, state),
                 state |-> state]
       /\ pc' = wpc

WritePcs == {"write1", "write2", "write3", "write4"}
PostPcs == {"post1", "post2", "post3"}
AfterWrite(p) ==
  CASE p = "write1" -> "post1" [] p = "write2" -> "post2"
    [] p = "write3" -> "post3" [] p = "write4" -> "finish"
AfterPost(p) ==
  CASE p = "post1" -> "enter2" [] p = "post2" -> "enter3" [] p = "post3" -> "enter4"

\* checkpoint.py 58-59: json.dump and close
SaveWrite ==
  /\ pc \in WritePcs /\ hpc = "none"
  /\ ckptFile' = OkFile(wr.doc)
  /\ wr' = IF pc = "write4" THEN NoWrite ELSE [wr EXCEPT !.open = FALSE]
  /\ pc' = AfterWrite(pc)
  /\ obs' = [obs EXCEPT !.lastSaved = wr.doc.current_phase, !.kept = {}]
  /\ UNCHANGED <<svars, worktrees, branches, promptFile, runNo, oracles, hpc,
                 resume, prompt_hash, resume_from_phase, checkpoint_data, ctx,
                 tasks, results, worker, mergeTodo, merged_branches, attempt,
                 tests_passed>>

\* main.py 398, 501, 617: interrupt_context["phase_state"] = phase_k_state
SaveReturn ==
  /\ pc \in PostPcs /\ hpc = "none"
  /\ ctx' = [ctx EXCEPT !.phase_state = wr.state]
  /\ wr' = NoWrite
  /\ pc' = AfterPost(pc)
  /\ UNCHANGED <<svars, diskvars, oracles, hpc, resume, prompt_hash,
                 resume_from_phase, checkpoint_data, tasks, results, worker,
                 mergeTodo, merged_branches, attempt, tests_passed, obs>>

\* main.py 374-398
Phase1 ==
  /\ pc = "phase1" /\ hpc = "none"
  /\ IF resume_from_phase > 1 /\ ~Falsy(checkpoint_data)
     THEN /\ pc' = "enter2"
          /\ UNCHANGED <<ckptFile, wr>>
     ELSE BeginSave(1, phase_1_state, "write1")
  /\ UNCHANGED <<svars, worktrees, branches, promptFile, runNo, oracles, hpc,
                 resume, prompt_hash, resume_from_phase, checkpoint_data, ctx,
                 tasks, results, worker, mergeTodo, merged_branches, attempt,
                 tests_passed, obs>>

\* main.py 401, 529, 640: interrupt_context["current_phase"] = k
EnterPhase ==
  /\ pc \in {"enter2", "enter3", "enter4"} /\ hpc = "none"
  /\ LET k == CASE pc = "enter2" -> 2 [] pc = "enter3" -> 3 [] pc = "enter4" -> 4
     IN /\ ctx' = [ctx EXCEPT !.current_phase = k]
        /\ pc' = CASE k = 2 -> "phase2" [] k = 3 -> "phase3" [] k = 4 -> "phase4"
  /\ UNCHANGED <<svars, diskvars, oracles, hpc, resume, prompt_hash,
                 resume_from_phase, checkpoint_data, wr, tasks, results, worker,
                 mergeTodo, merged_branches, attempt, tests_passed, obs>>

\* main.py 402-501: plan, review (tasks replaced by a refined plan's),
\* save phase 2 with the plan_data of create_task_breakdown
Phase2Plan ==
  /\ pc = "phase2" /\ hpc = "none"
  /\ resume_from_phase <= 2
  /\ LET plan_tasks == TaskIds
         final_tasks == IF reviewOracle.refined THEN reviewOracle.tasks
                        ELSE plan_tasks
     IN /\ tasks' = final_tasks
        /\ BeginSave(2, Phase2State(plan_tasks, final_tasks), "write2")
  /\ obs' = [obs EXCEPT !.did = @ \cup {2}]
  /\ UNCHANGED <<svars, worktrees, branches, promptFile, runNo, oracles, hpc,
                 resume, prompt_hash, resume_from_phase, checkpoint_data, ctx,
                 results, worker, mergeTodo, merged_branches, attempt,
                 tests_passed>>

\* main.py 502-526
Phase2Load ==
  /\ pc = "phase2" /\ hpc = "none"
  /\ resume_from_phase > 2
  /\ tasks' = checkpoint_data.d.phase_2_state.plan_data.tasks
  /\ pc' = "enter3"
  /\ UNCHANGED <<svars, diskvars, oracles, hpc, resume, prompt_hash,
                 resume_from_phase, checkpoint_data, ctx, wr, results, worker,
                 mergeTodo, merged_branches, attempt, tests_passed, obs>>

\* the initial result list taken from whatever checkpoint file is on disk
PreviousResults_stale ==
  LET cd == load_checkpoint(ckptFile)
  IN IF ~Falsy(cd)
     THEN Get(Get(cd.d, "phase_3_state", EmptyDict), "task_results", <<>>)
     ELSE <<>>

\* main.py 542-556: the tasks to run and the initial result list
PreviousResults ==
  IF resume_from_phase = 3 /\ ~Falsy(checkpoint_data)
  THEN Get(Get(checkpoint_data.d, "phase_3_state", EmptyDict), "task_results", <<>>)
  ELSE <<>>

\* the filter of main.py 549 dropped: every task runs again
TasksToRun_all(all_tasks, previous_results) == all_tasks

TasksToRun(all_tasks, previous_results) ==
  LET completed_task_ids ==
        {previous_results[i].id : i \in {j \in 1..Len(previous_results) :
                                           previous_results[j].completed}}
  IN {t \in all_tasks : t \notin completed_task_ids}

\* main.py 530-579: one future per task to run
Phase3Dispatch ==
  /\ pc = "phase3" /\ hpc = "none"
  /\ resume_from_phase <= 3
  /\ LET tasks_to_run ==
           IF resume_from_phase = 3 /\ ~Falsy(checkpoint_data)
           THEN TasksToRun(tasks, PreviousResults)
           ELSE tasks
     IN /\ results' = PreviousResults
        /\ worker' = [t \in TaskIds |-> IF t \in tasks_to_run THEN "queued" ELSE "none"]
        /\ obs' = [obs EXCEPT !.did = @ \cup {3}]
  /\ pc' = "collect"
  /\ UNCHANGED <<svars, diskvars, oracles, hpc, resume, prompt_hash,
                 resume_from_phase, checkpoint_data, ctx, wr, tasks, mergeTodo,
                 merged_branches, attempt, tests_passed>>

\* main.py 184-193 (process_task): feature branch created or reset, worktree set up
WorkerSetup(t) ==
  /\ pc # "off" /\ hpc = "none"
  /\ worker[t] = "queued"
  /\ worker' = [worker EXCEPT ![t] = "running"]
  /\ branches' = branches \cup {t}
  /\ worktrees' = worktrees \cup {t}
  /\ UNCHANGED <<svars, ckptFile, promptFile, runNo, oracles, pc, hpc, resume,
                 prompt_hash, resume_from_phase, checkpoint_data, ctx, wr, tasks,
                 results, mergeTodo, merged_branches, attempt, tests_passed, obs>>

\* main.py 195-247 (process_task): the future completes with its result
WorkerFinish(t) ==
  /\ pc # "off" /\ hpc = "none"
  /\ worker[t] = "running"
  /\ worker' = [worker EXCEPT ![t] = "done"]
  /\ UNCHANGED <<svars, diskvars, oracles, pc, hpc, resume, prompt_hash,
                 resume_from_phase, checkpoint_data, ctx, wr, tasks, results,
                 mergeTodo, merged_branches, attempt, tests_passed, obs>>

TaskResult(t) == [id |-> t, status |-> statusOracle[t], completed |-> FALSE]

\* main.py 581-584: as_completed yields a finished future; results.append
CollectResult(t) ==
  /\ pc = "collect" /\ hpc = "none"
  /\ worker[t] = "done"
  /\ worker' = [worker EXCEPT ![t] = "collected"]
  /\ results' = Append(results, TaskResult(t))
  /\ ctx' = IF SnapshotAliased(ctx)
            THEN [ctx EXCEPT !.phase_state = Phase3State(results')]
            ELSE ctx
  /\ pc' = "snap"
  /\ UNCHANGED <<svars, diskvars, oracles, hpc, resume, prompt_hash,
                 resume_from_phase, checkpoint_data, wr, tasks, mergeTodo,
                 merged_branches, attempt, tests_passed, obs>>

\* main.py 585-591
UpdateSnapshot ==
  /\ pc = "snap" /\ hpc = "none"
  /\ ctx' = [ctx EXCEPT !.phase_state = Phase3State(results)]
  /\ pc' = "collect"
  /\ UNCHANGED <<svars, diskvars, oracles, hpc, resume, prompt_hash,
                 resume_from_phase, checkpoint_data, wr, tasks, results, worker,
                 mergeTodo, merged_branches, attempt, tests_passed, obs>>

\* a cleanup loop that removes nothing
CleanupAll_none(wts, ids) == wts

\* git_ops.py 120-145: the worktree directory is removed (by git, or by the
\* rmtree fallback)
cleanup_worktree(wts, t) == wts \ {t}

CleanupAll(wts, ids) == {t \in wts : t \notin ids}

\* main.py 604-607, git_ops.py 137-145: the worktrees a teardown leaves
\* behind: none, or, when the removal fails (cleanup_worktree raises, or its
\* rmtree fallback cannot delete), those it was asked to remove; a failing
\* teardown is followed in the last run of a behaviour
TeardownFailures(wts, ids) ==
  {{}} \cup (IF runNo = MaxRuns THEN {wts \cap ids} ELSE {})

\* main.py 595-616: all futures collected; mark, tear down, save phase 3
Phase3Finish ==
  /\ pc = "collect" /\ hpc = "none"
  /\ \A t \in TaskIds : worker[t] \in {"none", "collected"}
  /\ results' = MarkCompleted(results)
  /\ ctx' = IF SnapshotAliased(ctx)
            THEN [ctx EXCEPT !.phase_state = Phase3State(results')]
            ELSE ctx
  /\ \E failed \in TeardownFailures(worktrees, Ids(results)) :
       /\ worktrees' = CleanupAll(worktrees, Ids(results) \ failed)
       /\ obs' = [obs EXCEPT !.kept = failed]
  /\ BeginSave(3, Phase3State(results'), "write3")
  /\ UNCHANGED <<svars, branches, promptFile, runNo, oracles, hpc, resume,
                 prompt_hash, resume_from_phase, checkpoint_data, tasks, worker,
                 mergeTodo, merged_branches, attempt, tests_passed>>

\* main.py 618-637
Phase3Load ==
  /\ pc = "phase3" /\ hpc = "none"
  /\ resume_from_phase > 3
  /\ results' = checkpoint_data.d.phase_3_state.task_results
  /\ pc' = "enter4"
  /\ UNCHANGED <<svars, diskvars, oracles, hpc, resume, prompt_hash,
                 resume_from_phase, checkpoint_data, ctx, wr, tasks, worker,
                 mergeTodo, merged_branches, attempt, tests_passed, obs>>

\* main.py 646-669: on resume into phase 4, stale worktrees are removed and a
\* result whose branch is gone is downgraded to ERROR
\* a resume check that leaves every result as the checkpoint has it
VerifyBranches_none(rs, brs) == rs

VerifyBranches(rs, brs) ==
  [i \in 1..Len(rs) |->
     IF rs[i].id \notin brs THEN [rs[i] EXCEPT !.status = "ERROR"] ELSE rs[i]]

\* the merge list left in the order the results were collected
RECURSIVE TasksToMerge_unsorted(_, _)
TasksToMerge_unsorted(rs, already_merged) ==
  IF rs = <<>> THEN <<>>
  ELSE (IF Mergeable(Head(rs).status) /\ Head(rs).id \notin already_merged
        THEN <<Head(rs).id>> ELSE <<>>)
       \o TasksToMerge_unsorted(Tail(rs), already_merged)

\* main.py 675-690: the results to merge, by ascending id, without the
\* branches the checkpoint records as merged
TasksToMerge(rs, already_merged) ==
  SortedIds({rs[i].id : i \in {j \in 1..Len(rs) : Mergeable(rs[j].status)}}
            \ already_merged)

\* main.py 640-690
Phase4Prepare ==
  /\ pc = "phase4" /\ hpc = "none"
  /\ LET verified == IF resume_from_phase = 4 THEN VerifyBranches(results, branches)
                     ELSE results
         already == IF resume_from_phase = 4 /\ ~Falsy(checkpoint_data)
                    THEN Get(Get(checkpoint_data.d, "phase_4_state", EmptyDict),
                             "merged_branches", {})
                    ELSE {}
     IN /\ results' = verified
        /\ worktrees' = IF resume_from_phase = 4
                        THEN CleanupAll(worktrees, Ids(results)) ELSE worktrees
        /\ merged_branches' = already
        /\ mergeTodo' = TasksToMerge(verified, already)
        /\ pc' = IF TasksToMerge(verified, already) = <<>> THEN "verify" ELSE "merge"
  /\ UNCHANGED <<svars, ckptFile, branches, promptFile, runNo, oracles, hpc,
                 resume, prompt_hash, resume_from_phase, checkpoint_data, ctx,
                 wr, tasks, worker, attempt, tests_passed, obs>>

\* main.py 694-713: one iteration of the merge loop
MergeNext ==
  /\ pc = "merge" /\ hpc = "none"
  /\ mergeTodo # <<>>
  /\ LET t == Head(mergeTodo)
         branch_exists == t \in branches
     IN merged_branches' = IF branch_exists /\ mergeOracle[t]
                           THEN merged_branches \cup {t} ELSE merged_branches
  /\ mergeTodo' = Tail(mergeTodo)
  /\ pc' = IF Tail(mergeTodo) = <<>> THEN "verify" ELSE "merge"
  /\ obs' = [obs EXCEPT !.did = @ \cup {4}]
  /\ UNCHANGED <<svars, diskvars, oracles, hpc, resume, prompt_hash,
                 resume_from_phase, checkpoint_data, ctx, wr, tasks, results,
                 worker, attempt, tests_passed>>

\* main.py 728-759: one iteration of the verification loop; the test gate
\* and the fix request answer either way
TestAttempt ==
  \E success \in BOOLEAN, fixed \in BOOLEAN :
    /\ pc = "verify" /\ hpc = "none"
    /\ attempt <= max_retries
    /\ IF success
       THEN /\ tests_passed' = TRUE
            /\ attempt' = attempt
            /\ pc' = "report"
       ELSE IF attempt < max_retries /\ fixed
       THEN /\ attempt' = attempt + 1
            /\ pc' = "verify"
            /\ UNCHANGED tests_passed
       ELSE /\ pc' = "report"
            /\ UNCHANGED <<attempt, tests_passed>>
    /\ obs' = [obs EXCEPT !.did = @ \cup {4}]
    /\ UNCHANGED <<svars, diskvars, oracles, hpc, resume, prompt_hash,
                   resume_from_phase, checkpoint_data, ctx, wr, tasks, results,
                   worker, mergeTodo, merged_branches>>

\* main.py 761-792: the report is written, phase 4 is saved
Phase4Save ==
  /\ pc = "report" /\ hpc = "none"
  /\ BeginSave(4, Phase4State(merged_branches, tests_passed), "write4")
  /\ UNCHANGED <<svars, worktrees, branches, promptFile, runNo, oracles, hpc,
                 resume, prompt_hash, resume_from_phase, checkpoint_data, ctx,
                 tasks, results, worker, mergeTodo, merged_branches, attempt,
                 tests_passed, obs>>

\* the process is gone: nothing of it is left but the workspace
ProcessGone ==
  /\ pc' = "off" /\ hpc' = "none"
  /\ resume' = FALSE /\ prompt_hash' = ""
  /\ resume_from_phase' = 1 /\ checkpoint_data' = NoneData
  /\ ctx' = NoCtx /\ wr' = NoWrite
  /\ tasks' = {} /\ results' = <<>>
  /\ worker' = [t \in TaskIds |-> "none"]
  /\ mergeTodo' = <<>> /\ merged_branches' = {}
  /\ attempt' = 0 /\ tests_passed' = FALSE

\* main.py 794-795: start() returns
NormalExit ==
  /\ pc = "finish" /\ hpc = "none"
  /\ ProcessGone
  /\ obs' = [NoObs EXCEPT !.lastSaved = obs.lastSaved]
  /\ UNCHANGED <<svars, diskvars, oracles>>

\* main.py 51-59: which phase the handler saves (0: nothing)
HandlerPhase(c) ==
  IF c.current_phase = 0 \/ DOMAIN c.phase_state = {} THEN 0
  ELSE IF c.current_phase = 3 /\ "phase_3_state" \in DOMAIN c.phase_state
          /\ c.phase_state.phase_3_state.task_results # <<>>
       THEN 3
  ELSE IF c.current_phase > 1 THEN c.current_phase - 1
  ELSE 0

\* main.py 56-59: the handler takes its phase-3 branch
HandlerPartial(c) == HandlerPhase(c) = 3 /\ c.current_phase = 3

\* SIGINT delivered to the main thread, first time; main.py 37-77 and
\* checkpoint.py 35-58: tear down the worktrees of the recorded results, mark
\* them completed and call save_checkpoint, which runs up to its
\* open(checkpoint_file, "w"); an exception of save_checkpoint is caught
Interrupt ==
  /\ pc \notin {"off"} /\ hpc = "none"
  /\ ~ctx.interrupted
  /\ LET phase == HandlerPhase(ctx)
         partial3 == HandlerPartial(ctx)
         task_results == IF partial3
                         THEN ctx.phase_state.phase_3_state.task_results
                         ELSE <<>>
         state == IF partial3 THEN Phase3State(MarkCompleted(task_results))
                  ELSE ctx.phase_state
         saving == phase # 0 /\ ~SaveRaises(ckptFile)
     IN /\ worktrees' = IF partial3 THEN CleanupAll(worktrees, Ids(task_results))
                        ELSE worktrees
        /\ results' = IF partial3 THEN MarkCompleted(results) ELSE results
        /\ ctx' = [ctx EXCEPT !.interrupted = TRUE,
                              !.phase_state = IF partial3 THEN state ELSE @]
        /\ ckptFile' = IF saving THEN CorruptFile ELSE ckptFile
        /\ wr' = IF saving
                 THEN [open |-> TRUE,
                       doc |-> SaveDoc(ckptFile, Workspace, phase, state),
                       state |-> state]
                 ELSE wr
        /\ hpc' = IF saving THEN "hwrite" ELSE "exit"
  /\ UNCHANGED <<svars, branches, promptFile, runNo, oracles, pc, resume,
                 prompt_hash, resume_from_phase, checkpoint_data, tasks,
                 worker, mergeTodo, merged_branches, attempt, tests_passed, obs>>

\* checkpoint.py 58-59 and main.py 78-91 in the handler: json.dump and close,
\* then sys.exit(0)
HandlerWrite ==
  /\ hpc = "hwrite"
  /\ ckptFile' = OkFile(wr.doc)
  /\ wr' = NoWrite
  /\ obs' = [obs EXCEPT !.hsaved = wr.doc.current_phase,
                        !.lastSaved = wr.doc.current_phase]
  /\ hpc' = "exit"
  /\ UNCHANGED <<svars, worktrees, branches, promptFile, runNo, oracles, pc,
                 resume, prompt_hash, resume_from_phase, checkpoint_data, ctx,
                 tasks, results, worker, mergeTodo, merged_branches, attempt,
                 tests_passed>>

\* main.py 39-42: a SIGINT after the first one; the handler calls
\* sys.exit(1) at once. When it cuts the first handler's save, the file is
\* closed with what json.dump had written so far
SecondInterrupt ==
  \E complete \in BOOLEAN :
    /\ pc # "off" /\ hpc \in {"none", "hwrite", "exit"}
    /\ ctx.interrupted /\ ~obs.second
    /\ (complete => hpc = "hwrite")
    /\ ckptFile' = IF hpc = "hwrite" /\ complete THEN OkFile(wr.doc) ELSE ckptFile
    /\ wr' = IF hpc = "hwrite" THEN NoWrite ELSE wr
    /\ obs' = [obs EXCEPT !.second = TRUE,
                          !.lastSaved = IF hpc = "hwrite" /\ complete
                                        THEN wr.doc.current_phase ELSE @]
    /\ hpc' = "exit"
    /\ UNCHANGED <<svars, worktrees, branches, promptFile, runNo, oracles, pc,
                   resume, prompt_hash, resume_from_phase, checkpoint_data, ctx,
                   tasks, results, worker, mergeTodo, merged_branches, attempt,
                   tests_passed>>

\* main.py 90-91 (or 42): the SystemExit unwinds the main thread; the executor
\* waits for the workers in flight, which set up their branch and worktree
\* and run to their end with nobody to collect the result; a checkpoint file
\* the main thread still had open for writing is closed with what json.dump
\* had written so far
InterruptExit ==
  \E complete \in BOOLEAN :
    /\ hpc = "exit"
    /\ (complete => wr.open)
    /\ ckptFile' = IF wr.open /\ complete THEN OkFile(wr.doc) ELSE ckptFile
    /\ worktrees' = worktrees \cup InFlight
    /\ branches' = branches \cup InFlight
    /\ ProcessGone
    /\ obs' = [NoObs EXCEPT !.lastSaved = IF wr.open /\ complete
                                          THEN wr.doc.current_phase
                                          ELSE obs.lastSaved]
    /\ UNCHANGED <<svars, promptFile, runNo, oracles>>

\* the main thread is inside one of the try blocks of start() closed by a
\* bare "except:", each around repo.git.rev_parse('--verify', ...):
\* main.py 630-637 (base branch, phase 3 loaded), 662-669 (resume
\* verification of a result's branch), 698-702 (merge loop)
InBareExcept ==
  \/ pc = "phase3" /\ resume_from_phase > 3
  \/ pc = "phase4" /\ resume_from_phase = 4 /\ results # <<>>
  \/ pc = "merge"

\* the SystemExit raised by the handler is caught by the bare "except:" and
\* start() goes on with the except branch: the base branch is created
\* (634-637), the result is downgraded to ERROR (664-669), or the branch to
\* merge is taken as missing and skipped (701-702)
InterruptSwallowed ==
  /\ hpc = "exit" /\ InBareExcept
  /\ hpc' = "none"
  /\ IF pc = "merge"
     THEN /\ mergeTodo' = Tail(mergeTodo)
          /\ pc' = IF Tail(mergeTodo) = <<>> THEN "verify" ELSE "merge"
          /\ obs' = [obs EXCEPT !.did = @ \cup {4}]
          /\ UNCHANGED results
     ELSE IF pc = "phase4"
     THEN /\ \E i \in 1..Len(results) :
               results' = [results EXCEPT ![i].status = "ERROR"]
          /\ UNCHANGED <<pc, mergeTodo, obs>>
     ELSE UNCHANGED <<pc, mergeTodo, results, obs>>
  /\ UNCHANGED <<svars, diskvars, oracles, resume, prompt_hash,
                 resume_from_phase, checkpoint_data, ctx, wr, tasks, worker,
                 merged_branches, attempt, tests_passed>>

\* main.py 814-826: the checkpoint-clear command, between runs
ClearCommand ==
  /\ pc = "off"
  /\ checkpoint_exists(ckptFile)
  /\ ckptFile' = clear_checkpoint(ckptFile)
  /\ obs' = [obs EXCEPT !.lastSaved = 0]
  /\ UNCHANGED <<svars, worktrees, branches, promptFile, runNo, oracles, procvars>>

Next ==
  \/ StartRun
  \/ StartFails
  \/ ResumeCheck
  \/ Phase1
  \/ SaveWrite
  \/ SaveReturn
  \/ EnterPhase
  \/ Phase2Plan
  \/ Phase2Load
  \/ Phase3Dispatch
  \/ \E t \in TaskIds : WorkerSetup(t)
  \/ \E t \in TaskIds : WorkerFinish(t)
  \/ \E t \in TaskIds : CollectResult(t)
  \/ UpdateSnapshot
  \/ Phase3Finish
  \/ Phase3Load
  \/ Phase4Prepare
  \/ MergeNext
  \/ TestAttempt
  \/ Phase4Save
  \/ NormalExit
  \/ Interrupt
  \/ HandlerWrite
  \/ SecondInterrupt
  \/ InterruptExit
  \/ InterruptSwallowed
  \/ ClearCommand

Spec == Init /\ [][Next]_vars

StoreSpecInit ==
  /\ StoreInit
  /\ pids = PinnedIds /\ patch = NoPatch
  /\ tq = NoTask /\ mq = NoMerge /\ vq = NoVerify /\ pq = NoPlan
  /\ ckptFile = AbsentFile /\ worktrees = {} /\ branches = {}
  /\ promptFile = "P1" /\ runNo = 0
  /\ reviewOracle = [refined |-> FALSE, tasks |-> {}]
  /\ statusOracle = [t \in TaskIds |-> "SUCCESS"]
  /\ mergeOracle = [t \in TaskIds |-> TRUE]
  /\ pc = "off" /\ hpc = "none" /\ resume = FALSE /\ prompt_hash = ""
  /\ resume_from_phase = 1 /\ checkpoint_data = NoneData
  /\ ctx = NoCtx /\ wr = NoWrite /\ tasks = {} /\ results = <<>>
  /\ worker = [t \in TaskIds |-> "none"]
  /\ mergeTodo = <<>> /\ merged_branches = {}
  /\ attempt = 0 /\ tests_passed = FALSE
  /\ obs = NoObs

StoreStep == StoreNext /\ UNCHANGED <<pvars, patchvars, unitvars>>

SpecStore == StoreSpecInit /\ [][StoreStep]_vars

PatchSpecInit ==
  /\ PatchInit
  /\ tq = NoTask /\ mq = NoMerge /\ vq = NoVerify /\ pq = NoPlan
  /\ sfile = AbsentFile /\ smgr = Workspace /\ sres = NoCall
  /\ ckptFile = AbsentFile /\ worktrees = {} /\ branches = {}
  /\ promptFile = "P1" /\ runNo = 0
  /\ reviewOracle = [refined |-> FALSE, tasks |-> {}]
  /\ statusOracle = [t \in TaskIds |-> "SUCCESS"]
  /\ mergeOracle = [t \in TaskIds |-> TRUE]
  /\ pc = "off" /\ hpc = "none" /\ resume = FALSE /\ prompt_hash = ""
  /\ resume_from_phase = 1 /\ checkpoint_data = NoneData
  /\ ctx = NoCtx /\ wr = NoWrite /\ tasks = {} /\ results = <<>>
  /\ worker = [t \in TaskIds |-> "none"]
  /\ mergeTodo = <<>> /\ merged_branches = {}
  /\ attempt = 0 /\ tests_passed = FALSE
  /\ obs = NoObs

PatchStep == PatchNext /\ UNCHANGED <<sfile, smgr, sres, unitvars, pvars>>

SpecPatch == PatchSpecInit /\ [][PatchStep]_vars

\* the pipeline before its first start
PipelineIdle ==
  /\ ckptFile = AbsentFile /\ worktrees = {} /\ branches = {}
  /\ promptFile = "P1" /\ runNo = 0
  /\ reviewOracle = [refined |-> FALSE, tasks |-> {}]
  /\ statusOracle = [t \in TaskIds |-> "SUCCESS"]
  /\ mergeOracle = [t \in TaskIds |-> TRUE]
  /\ pc = "off" /\ hpc = "none" /\ resume = FALSE /\ prompt_hash = ""
  /\ resume_from_phase = 1 /\ checkpoint_data = NoneData
  /\ ctx = NoCtx /\ wr = NoWrite /\ tasks = {} /\ results = <<>>
  /\ worker = [t \in TaskIds |-> "none"]
  /\ mergeTodo = <<>> /\ merged_branches = {}
  /\ attempt = 0 /\ tests_passed = FALSE
  /\ obs = NoObs

TaskSpecInit ==
  /\ TaskInit
  /\ mq = NoMerge /\ vq = NoVerify /\ pq = NoPlan
  /\ sfile = AbsentFile /\ smgr = Workspace /\ sres = NoCall
  /\ pids = PinnedIds /\ patch = NoPatch
  /\ PipelineIdle

TaskStep == TaskNext /\ UNCHANGED <<sfile, smgr, sres, patchvars, mq, vq, pq, pvars>>

SpecTask == TaskSpecInit /\ [][TaskStep]_vars

MergeSpecInit ==
  /\ MergeInit
  /\ tq = NoTask /\ vq = NoVerify /\ pq = NoPlan
  /\ sfile = AbsentFile /\ smgr = Workspace /\ sres = NoCall
  /\ pids = PinnedIds /\ patch = NoPatch
  /\ PipelineIdle

MergeStep ==
  MergeLoopNext /\ UNCHANGED <<sfile, smgr, sres, patchvars, tq, vq, pq, pvars>>

SpecMerge == MergeSpecInit /\ [][MergeStep]_vars

(***************************************************************************)
(* SpecVerify: the verification loop of phase 4, the report and the        *)
(* phase-4 checkpoint that end the run                                     *)
(***************************************************************************)
\* how one fix request goes: fix_code answers nothing, or file blocks that
\* apply_patches writes to so many files, and applying or committing them
\* raises or not
FixRuns ==
  [response : {""}, files : {0}, raises : {FALSE}]
  \cup [response : {"blocks"}, files : 0..1, raises : BOOLEAN]

\* the providers create_provider knows (main.py 95-98)
Providers == {"gemini", "claude"}

\* a report file of the workspace: absent, left by an earlier run, or
\* written by this run
StaleReports == [failure : {"absent", "old"}, verification : {"absent", "old"}]

\* the checkpoint phase 3 leaves, and the one an earlier run that went
\* through phase 4 without passing tests leaves
Phase3File ==
  save_checkpoint(AbsentFile, Workspace, 3, Phase3State(<<>>))
Phase4File(merged) ==
  save_checkpoint(Phase3File, Workspace, 4, Phase4State(merged, FALSE))

\* a loop that asks for a fix after the last attempt as well
MayRetry_always(n) == n <= max_retries

\* main.py 736: if attempt < max_retries
MayRetry(n) == n < max_retries

\* main.py 728: for attempt in range(max_retries + 1)
InRange(n) == n <= max_retries

\* a loop that goes on whenever the fix request did not raise
FixCommitted_lenient(fix) == ~fix.raises

\* main.py 742-757: the fix is applied to at least one file and committed
FixCommitted(fix) == fix.response # "" /\ ~fix.raises /\ fix.files > 0

\* a run that writes both reports
WriteReports_both(reports, passed) ==
  [failure |-> "new", verification |-> "new"]

\* main.py 761-782: the report the run ends with
WriteReports(reports, passed) ==
  IF ~passed THEN [reports EXCEPT !.failure = "new"]
  ELSE [reports EXCEPT !.verification = "new"]

\* main.py 717-726: the loop starts after the merges
VerifyInit ==
  \E merged \in SUBSET TaskIds, agent \in Providers, stale \in StaleReports :
   \E f \in {Phase3File, Phase4File(merged)} :
    vq = [NoVerify EXCEPT !.pc = "loop", !.merged_branches = merged,
                          !.verification_agent = agent,
                          !.reports = stale, !.file = f]

\* main.py 728-759: one iteration of the loop, the test gate and the fix
\* request answering either way
VerifyAttempt ==
  /\ vq.pc = "loop"
  /\ \E success \in BOOLEAN, fix \in FixRuns :
       IF success
       THEN vq' = [vq EXCEPT !.tests = Append(@, TRUE),
                             !.tests_passed = TRUE, !.pc = "report"]
       ELSE IF MayRetry(vq.attempt)
       THEN vq' = [vq EXCEPT
                     !.tests = Append(@, FALSE),
                     !.fixes = Append(@, fix),
                     !.commits = IF FixCommitted(fix) THEN @ + 1 ELSE @,
                     !.attempt = IF FixCommitted(fix) THEN @ + 1 ELSE @,
                     !.pc = IF FixCommitted(fix) /\ InRange(vq.attempt + 1)
                            THEN "loop" ELSE "report"]
       ELSE vq' = [vq EXCEPT !.tests = Append(@, FALSE), !.pc = "report"]

\* main.py 761-795: the report, the phase-4 checkpoint, the return
VerifyFinish ==
  /\ vq.pc = "report"
  /\ vq.tests_passed => vq.verification_agent \in Providers
  /\ vq' = [vq EXCEPT
              !.reports = WriteReports(@, vq.tests_passed),
              !.file = save_checkpoint(@, Workspace, 4,
                         Phase4State(vq.merged_branches, vq.tests_passed)),
              !.returned = TRUE, !.pc = "done"]

VerifyNext == VerifyAttempt \/ VerifyFinish

VerifySpecInit ==
  /\ VerifyInit
  /\ tq = NoTask /\ mq = NoMerge /\ pq = NoPlan
  /\ sfile = AbsentFile /\ smgr = Workspace /\ sres = NoCall
  /\ pids = PinnedIds /\ patch = NoPatch
  /\ PipelineIdle

VerifyStep ==
  VerifyNext /\ UNCHANGED <<sfile, smgr, sres, patchvars, tq, mq, pq, pvars>>

SpecVerify == VerifySpecInit /\ [][VerifyStep]_vars

(***************************************************************************)
(* SpecPlan: a fresh phase 2, from the task breakdown over the plan review *)
(* and the phase-2 checkpoint to the dispatch of phase 3                   *)
(***************************************************************************)
\* what review_and_refine_plan answers: "OK"; text from which no plan can be
\* extracted (or an empty object); text whose extraction raises; a refined
\* plan with a "tasks" list; a refined plan without the key "tasks"
ReviewResults ==
  [kind : {"OK", "unparsable", "raises", "no_tasks_key"}, tasks : {{}}]
  \cup [kind : {"refined"}, tasks : SUBSET TaskIds]

\* the checkpoint phase 1 of the run has saved
Phase1File ==
  save_checkpoint(AbsentFile, Workspace, 1,
                  [workspace |-> Workspace, repo_path |-> RepoPath,
                   prompt_hash |-> calculate_prompt_hash("P1")])

\* main.py 458-471: the tasks after the review
RefinedTasks(planned, review) ==
  CASE review.kind = "refined" -> review.tasks
    [] review.kind = "no_tasks_key" -> {}
    [] OTHER -> planned

\* main.py 375-397, 401-402: phase 1 is saved, resume_from_phase <= 2
PlanInit ==
  \E plan \in SUBSET TaskIds, review \in ReviewResults :
    pq = [NoPlan EXCEPT !.pc = "breakdown", !.plan = plan, !.review = review,
                        !.file = Phase1File]

\* main.py 444-450: the breakdown; without tasks the run exits with code 1
PlanBreakdown ==
  /\ pq.pc = "breakdown"
  /\ pq' = IF pq.plan = {}
           THEN [pq EXCEPT !.pc = "exited", !.rc = 1]
           ELSE [pq EXCEPT !.pc = "review", !.tasks = pq.plan]

\* main.py 452-471: plan documents and the review
PlanReview ==
  /\ pq.pc = "review"
  /\ pq' = [pq EXCEPT !.pc = "save", !.tasks = RefinedTasks(@, pq.review)]

\* main.py 473-501: the plan is written and printed, phase 2 is saved
PlanSave ==
  /\ pq.pc = "save"
  /\ pq' = [pq EXCEPT !.pc = "phase3",
                      !.file = save_checkpoint(@, Workspace, 2,
                                               Phase2State(pq.plan, pq.tasks))]

\* main.py 528-577: phase 3 submits one process_task per task
PlanDispatch ==
  /\ pq.pc = "phase3"
  /\ pq' = [pq EXCEPT !.pc = "dispatched", !.dispatched = pq.tasks]

PlanNext == PlanBreakdown \/ PlanReview \/ PlanSave \/ PlanDispatch

PlanSpecInit ==
  /\ PlanInit
  /\ tq = NoTask /\ mq = NoMerge /\ vq = NoVerify
  /\ sfile = AbsentFile /\ smgr = Workspace /\ sres = NoCall
  /\ pids = PinnedIds /\ patch = NoPatch
  /\ PipelineIdle

PlanStep ==
  PlanNext /\ UNCHANGED <<sfile, smgr, sres, patchvars, tq, mq, vq, pvars>>

SpecPlan == PlanSpecInit /\ [][PlanStep]_vars

(***************************************************************************)
(* Properties                                                              *)
(***************************************************************************)
CompletedIds(rs) == {rs[i].id : i \in {j \in 1..Len(rs) : rs[j].completed}}
StoredResults(cd) ==
  Get(Get(cd.d, "phase_3_state", EmptyDict), "task_results", <<>>)

\* this run resumed from a checkpoint that a phase-3 interrupt left with
\* some, but not all, of the planned tasks' results
ResumedFromPartial ==
  /\ resume /\ ~Falsy(checkpoint_data)
  /\ ~reviewOracle.refined
  /\ Get(checkpoint_data.d, "current_phase", 0) = 3
  /\ Ids(StoredResults(checkpoint_data)) # {}
  /\ tasks \ Ids(StoredResults(checkpoint_data)) # {}

\* C1: after an interrupt in phase 3 that recorded some but not all results,
\* the resumed run has dispatched every planned task without a completed
\* result by the time integration (phase 4) starts.
C1_ResumeRunsRemainingTasks ==
  (ResumedFromPartial /\ pc = "phase4")
    => \A t \in tasks \ CompletedIds(StoredResults(checkpoint_data)) : t \in Batch

\* C2: when phase 3 runs on resume with a prior result set, the dispatched
\* tasks are exactly the planned tasks minus the ids of the prior results
\* with completed = true, and the result list never holds two results of
\* one task id.
AfterDispatch ==
  pc \in {"collect", "snap", "write3", "post3", "enter4", "phase4", "merge",
          "verify", "report", "write4", "finish"}
C2_ResumeSkipExact ==
  (AfterDispatch /\ resume_from_phase = 3 /\ ~Falsy(checkpoint_data)
     /\ StoredResults(checkpoint_data) # <<>>)
    => /\ Batch = tasks \ {r.id : r \in {x \in Range(StoredResults(checkpoint_data)) :
                                           x.completed}}
       /\ \A i, j \in 1..Len(results) : results[i].id = results[j].id => i = j
C2_Witness ==
  /\ pc = "post3" /\ resume_from_phase = 3
  /\ StoredResults(checkpoint_data) # <<>>
  /\ Batch # {} /\ Batch # tasks
  /\ Len(results) = Cardinality(tasks)

\* C3: the phase of each completed save is at least the phase of the save
\* before it, unless the checkpoint was cleared in between.
C3_PhaseMonotone ==
  [][obs.lastSaved' >= obs.lastSaved \/ obs.lastSaved' = 0]_vars

\* the outcome of an uninterrupted run with these stubs
ExpectedTasks == IF reviewOracle.refined THEN reviewOracle.tasks ELSE TaskIds
ExpectedResults ==
  {[id |-> t, status |-> statusOracle[t], completed |-> TRUE] : t \in ExpectedTasks}
ExpectedMerged ==
  {t \in ExpectedTasks : Mergeable(statusOracle[t]) /\ mergeOracle[t]}

\* the checkpoint this run resumed from is the one the first run wrote at
\* the end of phase k, for a k in 1..3
ResumedAtBoundary ==
  /\ runNo = 2 /\ resume /\ ~Falsy(checkpoint_data)
  /\ LET d == checkpoint_data.d
         k == Get(d, "current_phase", 0)
     IN /\ k \in 1..3
        /\ "phase_4_state" \notin DOMAIN d
        /\ ("phase_2_state" \in DOMAIN d) = (k >= 2)
        /\ ("phase_3_state" \in DOMAIN d) = (k >= 3)
        /\ k = 3 => Ids(StoredResults(checkpoint_data)) = ExpectedTasks

\* C4: a run stopped after the phase-k checkpoint and resumed ends with the
\* task list, task results and merged branches of the uninterrupted run.
C4_IdempotentResume ==
  (ResumedAtBoundary /\ pc = "finish")
    => /\ tasks = ExpectedTasks
       /\ Range(results) = ExpectedResults
       /\ merged_branches = ExpectedMerged

\* a stored prompt hash: the key is there and is not the empty string that
\* stands for "no prompt file"
HashRecorded(doc) == "prompt_hash" \in DOMAIN doc /\ doc.prompt_hash # ""

\* C5: validate returns true exactly when the checkpoint loads, its
\* workspace and repo path equal the given ones, and no prompt hash is
\* recorded or the recorded one equals the given hash.
C5_ValidateExact ==
  sres.op = "validate"
    => (sres.ok <=> /\ sfile.st = "ok"
                    /\ "workspace" \in DOMAIN sfile.data
                    /\ sfile.data.workspace = sres.ws
                    /\ "repo_path" \in DOMAIN sfile.data
                    /\ sfile.data.repo_path = sres.rp
                    /\ (~HashRecorded(sfile.data)
                          \/ sfile.data.prompt_hash = sres.hash))
C5_Witness ==
  /\ sres.op = "validate" /\ sres.ok
  /\ HashRecorded(sfile.data)
  /\ sfile.data.current_phase = 2

C7_ResumeFrom ==
  [][(pc = "resume_check" /\ pc' = "phase1")
       => resume_from_phase' =
            IF /\ resume
               /\ ckptFile.st = "ok"
               /\ ckptFile.data.workspace = Workspace
               /\ "repo_path" \in DOMAIN ckptFile.data
               /\ ckptFile.data.repo_path = RepoPath
               /\ (~HashRecorded(ckptFile.data)
                     \/ ckptFile.data.prompt_hash = calculate_prompt_hash(promptFile))
            THEN ckptFile.data.current_phase + 1
            ELSE 1]_vars
C7_Witness ==
  /\ pc = "phase1" /\ resume
  /\ resume_from_phase = 2
  /\ ckptFile.st = "ok" /\ ckptFile.data.phases_completed = 1..4

\* C8: a resumed run performs no work of a phase below resumeFrom: no
\* planning, no dispatch, no merge and no verification loop.
C8_SkippedPhasesNotRedone ==
  \A p \in 2..4 : resume_from_phase > p => p \notin obs.did

\* C9: once the handler of the first interrupt in phases 2-4 has run: in
\* phase 3 with at least one result recorded, a phase-3 checkpoint holding
\* exactly the recorded results, all completed, has been saved; otherwise a
\* checkpoint for currentPhase - 1 has been saved.
C9_HandlerSaves ==
  (hpc = "exit" /\ ~obs.second /\ ctx.current_phase \in 2..4)
    => IF ctx.current_phase = 3 /\ Len(results) >= 1
       THEN /\ obs.hsaved = 3
            /\ ckptFile.st = "ok"
            /\ StoredResults(load_checkpoint(ckptFile)) = results
            /\ \A i \in 1..Len(results) : results[i].completed
       ELSE obs.hsaved = ctx.current_phase - 1

\* C10: after the handler saved the phase-3 checkpoint of an interrupted
\* batch, no worktree of any task of the batch is left.
C10_NoWorktreeLeft ==
  (hpc = "exit" /\ ~obs.second /\ ctx.current_phase = 3 /\ obs.hsaved = 3)
    => worktrees \cap Batch = {}

\* C11: once a second interrupt signal has been delivered to the process, no
\* checkpoint save is started any more (no write of the checkpoint file is
\* opened) before the process is gone.
C11_SecondInterruptNoSave ==
  [][obs.second => ~(~wr.open /\ wr'.open)]_vars

\* C12: checkpoint writes are atomic: whenever the file can be looked at by
\* anyone but the writer in the middle of its write (the interrupt handler
\* has run, or the process is gone), it holds a complete document or does
\* not exist, never a partially written one.
C12_AtomicWrites ==
  (pc = "off" \/ hpc = "exit") => ckptFile.st # "corrupt"

\* C13: save(phase, state) on an unparsable checkpoint file succeeds: it
\* leaves a fresh document {version, workspace} stamped with the phase.
C13_SaveOnCorruptFile ==
  [][(sfile.st = "corrupt" /\ sres'.op = "save")
       => /\ sres'.ok
          /\ sfile'.st = "ok"
          /\ sfile'.data.workspace = smgr
          /\ sfile'.data.current_phase = sres'.num
          /\ sfile'.data.phases_completed = {sres'.num}]_vars

\* C14: on an absent or unparsable checkpoint file, load returns None,
\* validate returns false, get_current_phase returns 0 and
\* get_phases_completed returns the empty collection.
C14_NoCheckpointAnswers ==
  (sfile.st \in {"absent", "corrupt"})
    => /\ sres.op = "load" => ~sres.ok
       /\ sres.op = "validate" => ~sres.ok
       /\ sres.op = "get_current_phase" => sres.num = 0
       /\ sres.op = "get_phases_completed" => sres.set = {}
C14_Witness ==
  /\ sfile.st = "corrupt"
  /\ sres.op = "load" /\ ~sres.ok

\* the top-level keys save_checkpoint stamps itself
StampedKeys == {"current_phase", "phases_completed"}

\* C15: a successful save on an existing document changes only
\* current_phase, phases_completed and the top-level keys of the state it
\* was given: every other stored key keeps its value and no other key
\* appears.
C15_SaveFrame ==
  [][(sres'.op = "save" /\ sres'.ok /\ sfile.st = "ok")
       => /\ sfile'.st = "ok"
          /\ \A k \in DOMAIN sfile.data \ (StampedKeys \cup sres'.keys) :
               k \in DOMAIN sfile'.data /\ sfile'.data[k] = sfile.data[k]
          /\ DOMAIN sfile'.data \subseteq
               DOMAIN sfile.data \cup StampedKeys \cup sres'.keys]_vars
C15_Witness ==
  /\ sres.op = "save" /\ sres.ok /\ sres.keys = {"phase_3_state"}
  /\ sfile.st = "ok"
  /\ {"repo_path", "prompt_hash", "phase_2_state"} \subseteq DOMAIN sfile.data

\* C16: after a successful save(phase, state) the stored phases_completed
\* is the set stored before united with {phase}.
C16_PhasesCompletedGrow ==
  [][(sres'.op = "save" /\ sres'.ok)
       => get_phases_completed(sfile')
            = get_phases_completed(sfile) \cup {sres'.num}]_vars
C16_Witness ==
  /\ sres.op = "save" /\ sres.ok /\ sres.num = 1
  /\ sfile.st = "ok" /\ sfile.data.phases_completed = {1, 3, 4}

\* this run asked for resume and found a checkpoint file that does not
\* validate: unparsable, or recorded for another prompt (workspace and
\* repository path are the same in every run)
Invalidated ==
  /\ pc \notin {"off", "resume_check"} /\ resume
  /\ \/ obs.startFile = "corrupt"
     \/ obs.startFile = "ok" /\ obs.startHash \notin {"", prompt_hash}

PhaseKey == [k \in 2..4 |-> CASE k = 2 -> "phase_2_state"
                               [] k = 3 -> "phase_3_state"
                               [] k = 4 -> "phase_4_state"]

\* C17: when resume is requested and the checkpoint found fails validation,
\* the run starts from phase 1, the file is gone before phase 1 runs, and
\* whatever checkpoint exists later in the run records this run's prompt and
\* only phases this run performed.
C17_InvalidCheckpointCleared ==
  Invalidated
    => /\ resume_from_phase = 1
       /\ pc = "phase1" => ckptFile.st = "absent"
       /\ ckptFile.st = "ok"
            => /\ ckptFile.data.prompt_hash = prompt_hash
               /\ ckptFile.data.phases_completed \subseteq {1} \cup obs.did
               /\ \A k \in 2..4 :
                    PhaseKey[k] \in DOMAIN ckptFile.data => k \in obs.did
C17_Witness ==
  /\ Invalidated /\ obs.startFile = "ok"
  /\ pc = "post2" /\ ckptFile.st = "ok"
  /\ ckptFile.data.phases_completed = {1, 2}

\* this run did not ask for resume and found a checkpoint on disk
FreshOverCheckpoint ==
  /\ pc \notin {"off", "resume_check"} /\ ~resume
  /\ obs.startFile = "ok"

PlanDone ==
  pc \in {"write2", "post2", "enter3", "phase3"} \/ AfterDispatch

\* C18: a run started without resume over an existing checkpoint starts from
\* phase 1, leaves the file in place at startup and takes nothing from it:
\* it plans itself, dispatches every planned task starting from an empty
\* result list, and merges starting from an empty merged set.
C18_NoResumeIgnoresCheckpoint ==
  FreshOverCheckpoint
    => /\ resume_from_phase = 1
       /\ Falsy(checkpoint_data)
       /\ pc = "phase1" => ckptFile.st = "ok"
       /\ PlanDone => (2 \in obs.did /\ tasks = ExpectedTasks)
       /\ AfterDispatch
            => /\ 3 \in obs.did
               /\ Batch = tasks
               /\ Len(results) = Cardinality({t \in TaskIds : worker[t] = "collected"})
       /\ merged_branches # {} => 4 \in obs.did
C18_Witness ==
  /\ FreshOverCheckpoint /\ pc = "finish"
  /\ obs.startHash = prompt_hash
  /\ merged_branches # {}

\* C19: two dispatched tasks with distinct ids never share a worktree path
\* or a branch name, and no file written by the executor of one lies in the
\* worktree of the other.
C19_TaskIsolation ==
  \A a, b \in Slots :
    a # b
      => /\ worktree_path(pids[a]) # worktree_path(pids[b])
         /\ feature_branch(pids[a]) # feature_branch(pids[b])
         /\ patch.by = a
              => \A p \in patch.written : ~Inside(worktree_path(pids[b]), p)

\* C20: apply_patches writes no file outside its root directory, and reports
\* no path that resolves outside it as modified.
C20_PatchRejectsOutside ==
  /\ \A p \in patch.written : Inside(patch.root, p)
  /\ \A i \in 1..Len(patch.modified_files) :
       Inside(patch.root, full_path(patch.root, patch.modified_files[i]))


Phase3Pcs == {"phase3", "collect", "snap"}
Phase4Pcs == {"merge", "verify", "report", "write4", "finish"}
FailedTasks == {t \in TaskIds : statusOracle[t] = "ERROR"}
ResultsOf(t) == {i \in 1..Len(results) : results[i].id = t}

\* this run executes phase 3 itself and no interrupt has been delivered
DispatchingRun == pc # "off" /\ resume_from_phase <= 3 /\ ~ctx.interrupted

\* C21: a task whose executor fails stops neither its siblings nor the run:
\* while the batch is collected the process stays alive; once phase 3 is
\* over every task of the batch has exactly one result, with status ERROR
\* for a failing task and its own status for every other; and phase 4
\* attempts and records merges of tasks that did not fail only.
C21_FailureContained ==
  [][(DispatchingRun /\ ~ctx'.interrupted)
       => /\ (pc \in Phase3Pcs /\ Batch \cap FailedTasks # {}) => pc' # "off"
          /\ pc' \in {"post3", "enter4", "phase4"} \cup Phase4Pcs
               => \A t \in Batch' :
                    /\ Cardinality(ResultsOf(t)') = 1
                    /\ \A i \in ResultsOf(t)' : results'[i].status = statusOracle[t]
          /\ pc' \in Phase4Pcs
               => (Range(mergeTodo') \cup merged_branches') \cap FailedTasks = {}]_vars
C21_Witness ==
  /\ DispatchingRun /\ pc = "verify"
  /\ Batch = TaskIds /\ FailedTasks \cap Batch # {}
  /\ merged_branches = Batch \ FailedTasks
  /\ merged_branches # {}
  /\ 4 \in obs.did


\* the ids of the results that integration may merge
MergeableIds(rs) == {rs[i].id : i \in {j \in 1..Len(rs) : Mergeable(rs[j].status)}}

\* C23: the merge list phase 4 builds holds exactly the results with status
\* SUCCESS or WARN whose branch is not in the resumed merged set, in
\* ascending id order whatever the order the workers completed in, and the
\* merge loop attempts its entries one by one from the front.
C23_MergeOrder ==
  [][(~ctx.interrupted /\ ~ctx'.interrupted)
       => /\ (pc = "phase4" /\ pc' # "phase4")
               => /\ Range(mergeTodo') = MergeableIds(results') \ merged_branches'
                  /\ \A i, j \in 1..Len(mergeTodo') :
                       i < j => mergeTodo'[i] < mergeTodo'[j]
          /\ (pc = "merge" /\ pc' # "off")
               => /\ mergeTodo' = Tail(mergeTodo)
                  /\ merged_branches' \ merged_branches \subseteq {Head(mergeTodo)}
                  /\ merged_branches \subseteq merged_branches']_vars
C23_Witness ==
  /\ pc = "merge" /\ ~ctx.interrupted
  /\ Len(results) = 2 /\ results[1].id > results[2].id
  /\ mergeTodo = <<results[2].id, results[1].id>>


\* where the main thread is once the phase-k checkpoint is written and
\* before the save of phase k+1 starts
AfterSaveOf(k) ==
  CASE k = 1 -> {"post1", "enter2", "phase2"}
    [] k = 2 -> {"post2", "enter3", "phase3", "collect", "snap"}
    [] k = 3 -> {"post3", "enter4", "phase4", "merge", "verify", "report"}
    [] k = 4 -> {"finish"}

\* C29: in a run without interrupt that executes phase k itself, from the
\* end of phase k until the save of phase k+1 the checkpoint on disk is the
\* one of phase k; and in a run started from phase 1 every completed save is
\* that of phase 1 or of the phase after the last one saved.
C29_SaveBeforeAdvance ==
  [][/\ (pc' # "off" /\ ~ctx'.interrupted)
          => \A k \in 1..4 :
               (pc' \in AfterSaveOf(k) /\ resume_from_phase' <= k)
                 => /\ ckptFile'.st = "ok"
                    /\ ckptFile'.data.current_phase = k
                    /\ k \in ckptFile'.data.phases_completed
                    /\ obs'.lastSaved = k
     /\ (pc \in WritePcs /\ ~ctx.interrupted /\ resume_from_phase = 1
           /\ obs'.lastSaved # obs.lastSaved)
          => obs'.lastSaved = IF pc = "write1" THEN 1 ELSE obs.lastSaved + 1]_vars
C29_Witness ==
  /\ pc = "finish" /\ ~ctx.interrupted /\ resume_from_phase = 1
  /\ obs.did = {2, 3, 4} /\ obs.lastSaved = 4
  /\ ckptFile.st = "ok" /\ ckptFile.data.phases_completed = 1..4
  /\ Len(results) = NumTasks


\* C30: when the collection of the phase-3 batch ends without an interrupt,
\* the run goes on to the phase-3 save with every accumulated result (those
\* carried over from the checkpoint included) marked completed, in memory
\* and in the document being saved, and with no worktree left for a task of
\* the batch or of a carried-over result, except those whose teardown
\* failed, which does not stop the run.
C30_BatchTornDown ==
  [][(pc = "collect" /\ pc' \notin {"collect", "snap"}
        /\ ~ctx.interrupted /\ ~ctx'.interrupted)
       => /\ pc' = "write3"
          /\ Batch' \subseteq Ids(results')
          /\ \A i \in 1..Len(results') : results'[i].completed
          /\ StoredResults([isNone |-> FALSE, d |-> wr'.doc]) = results'
          /\ worktrees' \cap (Batch' \cup Ids(results')) \subseteq obs'.kept]_vars
C30_Witness ==
  /\ pc = "write3" /\ ~ctx.interrupted
  /\ resume_from_phase = 3 /\ StoredResults(checkpoint_data) # <<>>
  /\ Batch # {} /\ Ids(results) = Batch \cup Ids(StoredResults(checkpoint_data))
  /\ Batch \cap Ids(StoredResults(checkpoint_data)) = {}
  /\ worktrees = {} /\ obs.kept = {}
C30_WitnessTeardownFails ==
  /\ pc = "post3" /\ ~ctx.interrupted
  /\ worktrees \cap Batch # {}
  /\ obs.lastSaved = 3


\* C28: a start whose validation fails ends with a non-zero exit code
\* without having executed a phase and leaves the checkpoint file as it
\* found it: not created, not rewritten, not cleared.
C28_StartupFailureLeavesCheckpoint ==
  [][(pc = "off" /\ pc' = "off" /\ runNo' # runNo)
       => /\ obs'.startrc # 0
          /\ obs'.did = {}
          /\ ckptFile' = ckptFile
          /\ obs'.lastSaved = obs.lastSaved
          /\ ~wr'.open]_vars
C28_Witness ==
  /\ pc = "off" /\ obs.startrc = 1
  /\ ckptFile.st = "ok" /\ ckptFile.data.current_phase = 2
  /\ ckptFile.data.prompt_hash # calculate_prompt_hash(EditedPrompt)
  /\ obs.lastSaved = 2


TaskStatuses == {"SUCCESS", "WARN", "FAILED", "ERROR"}

\* C22: a call of process_task ends by returning one result, never by an
\* exception, whichever of its steps raise: the result carries the id of the
\* task, a status in {SUCCESS, WARN, FAILED, ERROR} and the branch name
\* feat/<id>; the status is ERROR exactly when a step that was reached
\* raised, and the result then records that exception's message.
C22_ExecutorTotal ==
  tq.pc = "ended"
    => /\ ~tq.raised /\ tq.returned = 1
       /\ {"id", "status", "branch"} \subseteq DOMAIN tq.result
       /\ tq.result.id = tq.id
       /\ tq.result.status \in TaskStatuses
       /\ tq.result.branch = <<"feat/">> \o tq.id
       /\ LET failing == FirstRaise(tq.run, TaskSteps)
          IN /\ (tq.result.status = "ERROR") = (failing # "none")
             /\ failing # "none"
                  => /\ "error" \in DOMAIN tq.result
                     /\ tq.result.error = ErrorOf(failing)
C22_Witness ==
  /\ tq.pc = "ended" /\ tq.returned = 1
  /\ tq.run.raises = {"branch", "commit"}
  /\ tq.result.status = "ERROR"
  /\ tq.result.branch = <<"feat/", "1", "0">>


\* the resolver answers nothing for one of the conflicted files of the merge
EmptyAnswer(run) ==
  run.exists /\ run.merge = "conflict"
    /\ \E i \in 1..Len(run.answers) : run.answers[i] = "empty"

\* C24: when the merge of a branch conflicts and the resolver returns an
\* empty response for one of the conflicted files, wherever that file comes
\* in the merge, the merge leaves the repository as it found it (nothing
\* merged, no merge in progress, no resolution staged), the branch does not
\* enter merged_branches, and the loop goes on: at its end every existing
\* branch of the list has been attempted, in the order of the list.
C24_EmptyResolutionAborts ==
  [][/\ (mq.pc = "loop" /\ mq.todo # <<>> /\ EmptyAnswer(mq.runs[Head(mq.todo)]))
          => /\ mq'.repo = mq.repo
             /\ mq'.repo.merging = 0 /\ mq'.repo.resolved = {}
             /\ Head(mq.todo) \notin mq'.merged_branches
             /\ Head(mq.todo) \notin mq'.repo.base
             /\ mq'.pc = "loop" /\ mq'.todo = Tail(mq.todo)
     /\ mq'.pc = "done"
          => mq'.attempted
               = SelectSeq(AllBranches, LAMBDA t : mq.runs[t].exists)]_vars
C24_Witness ==
  /\ mq.pc = "done"
  /\ mq.runs[1].exists /\ mq.runs[1].merge = "conflict"
  /\ mq.runs[1].answers = <<"text", "empty">>
  /\ mq.merged_branches = TaskIds \ {1}
  /\ mq.repo = [base |-> TaskIds \ {1}, merging |-> 0, resolved |-> {}]


\* whether a fix request produced nothing to commit: an empty response, or
\* patches that modified no file
NoFix(fix) == fix.response = "" \/ (~fix.raises /\ fix.files = 0)

\* C25: the verification loop runs the test gate at most max_retries + 1 = 3
\* times and commits at most max_retries = 2 fixes; when the gate passes on
\* attempt k, every earlier fix request was applied and committed, there
\* are exactly k - 1 of them, tests_passed is true, and the loop has ended:
\* no test run and no fix request follows the pass.
C25_BoundedVerification ==
  /\ max_retries = 2
  /\ Len(vq.tests) <= max_retries + 1
  /\ Len(vq.fixes) <= max_retries /\ vq.commits <= max_retries
  /\ \A k \in 1..Len(vq.tests) :
       vq.tests[k] =>
         /\ k = Len(vq.tests) /\ vq.pc # "loop" /\ vq.tests_passed
         /\ Len(vq.fixes) = k - 1 /\ vq.commits = k - 1
         /\ \A j \in 1..(k - 1) : FixCommitted(vq.fixes[j])
C25_Witness ==
  /\ vq.pc = "done" /\ vq.tests = <<FALSE, FALSE, TRUE>>
  /\ vq.tests_passed /\ vq.commits = 2

\* C26: once a fix request answers with an empty response, or with patches
\* that modify no file, it is the last fix request and the failing test run
\* before it is the last test run: the loop has stopped with tests_passed
\* false, whatever retries remained.
C26_NoFixStopsLoop ==
  \A j \in 1..Len(vq.fixes) :
    NoFix(vq.fixes[j]) =>
      /\ j = Len(vq.fixes) /\ Len(vq.tests) = j
      /\ vq.pc # "loop" /\ ~vq.tests_passed
      /\ vq.commits = j - 1
C26_Witness ==
  /\ vq.pc = "done" /\ Len(vq.fixes) = 1 /\ vq.fixes[1].response = ""
  /\ vq.tests = <<FALSE>> /\ ~vq.tests_passed
C26_WitnessNoFiles ==
  /\ vq.pc = "done" /\ Len(vq.fixes) = 1
  /\ vq.fixes[1] = [response |-> "blocks", files |-> 0, raises |-> FALSE]
  /\ vq.tests = <<FALSE>> /\ ~vq.tests_passed

\* the phase-4 checkpoint of the run: the file parses, its current phase
\* is 4 and its phase_4_state holds the verdict and the merged branches
Phase4Saved(f, merged, passed) ==
  /\ ~load_checkpoint(f).isNone
  /\ load_checkpoint(f).d.current_phase = 4
  /\ 4 \in load_checkpoint(f).d.phases_completed
  /\ load_checkpoint(f).d.phase_4_state.tests_passed = passed
  /\ load_checkpoint(f).d.phase_4_state.merged_branches = merged

\* C27: every way out of the verification loop leads to the normal end of
\* the run. Without a passing test run (attempts exhausted or loop stopped
\* early) the run writes the failure report, writes no verification
\* report, and saves a phase-4 checkpoint with tests_passed false and the
\* merged branches; with a pass it writes the verification report, writes
\* no failure report, and the checkpoint has tests_passed true.
C27_VerificationOutcomeRecorded ==
  /\ vq.pc = "report" => ENABLED VerifyFinish
  /\ vq.pc = "done" =>
       /\ vq.returned
       /\ vq.tests_passed = (vq.tests # <<>> /\ vq.tests[Len(vq.tests)])
       /\ Phase4Saved(vq.file, vq.merged_branches, vq.tests_passed)
       /\ IF vq.tests_passed
          THEN vq.reports.verification = "new" /\ vq.reports.failure # "new"
          ELSE vq.reports.failure = "new" /\ vq.reports.verification # "new"
C27_Witness ==
  /\ vq.pc = "done" /\ ~vq.tests_passed /\ Len(vq.tests) = max_retries + 1
  /\ vq.reports = [failure |-> "new", verification |-> "old"]
  /\ vq.merged_branches = TaskIds
C27_WitnessPass ==
  /\ vq.pc = "done" /\ vq.tests_passed
  /\ vq.reports = [failure |-> "old", verification |-> "new"]


\* the task results the interrupt handler would read from interrupt_context
SnapshotResults(c) ==
  IF "phase_3_state" \in DOMAIN c.phase_state
  THEN c.phase_state.phase_3_state.task_results ELSE <<>>

\* C31: during phase 3, at every moment at which a first interrupt can be
\* delivered, the task result list in the interrupt context is the list of
\* results the dispatcher has collected so far, in the same order.
C31_SnapshotUpToDate ==
  (pc \in Phase3Pcs /\ hpc = "none" /\ ~ctx.interrupted /\ resume_from_phase <= 2)
    => SnapshotResults(ctx) = results


\* C32: when code generation is reached and answers with an empty or absent
\* response, process_task returns status FAILED with an error recorded and
\* does nothing more: the patcher and the linter are not run and no commit
\* is made, so the feature branch stays at the tip of the base branch.
C32_EmptyGenerationFails ==
  (tq.pc = "ended" /\ ~TruthyStr(tq.run.code_response)
     /\ tq.run.raises \cap {"branch", "worktree", "generate"} = {})
    => /\ tq.returned = 1 /\ tq.result.status = "FAILED"
       /\ "error" \in DOMAIN tq.result /\ TruthyStr(tq.result.error)
       /\ tq.ran = {"branch", "worktree", "generate"}
       /\ tq.heads = "base" /\ tq.wt = "clean"
C32_Witness ==
  /\ tq.pc = "ended" /\ tq.run.code_response = None
  /\ tq.run.raises = {"lint"} /\ tq.run.modified = 1
  /\ tq.result.status = "FAILED" /\ tq.ran = {"branch", "worktree", "generate"}

\* C33: when generation answers with a non-empty response and no step
\* raises, the status is SUCCESS exactly when the linter passed and WARN
\* exactly when it failed, with or without modified files; a commit is made
\* on the feature branch exactly when the patcher reports at least one
\* modified file, and files_changed is the number of files it reports.
C33_StatusFollowsLint ==
  (tq.pc = "ended" /\ TruthyStr(tq.run.code_response) /\ tq.run.raises = {})
    => /\ tq.returned = 1
       /\ (tq.result.status = "SUCCESS") = tq.run.lint_success
       /\ (tq.result.status = "WARN") = ~tq.run.lint_success
       /\ ("commit" \in tq.ran) = (tq.run.modified > 0)
       /\ tq.heads = IF tq.run.modified > 0 THEN "ahead" ELSE "base"
       /\ tq.wt = "clean"
       /\ tq.result.files_changed = tq.run.modified
       /\ tq.result.lint = tq.run.lint_success
C33_Witness ==
  /\ tq.pc = "ended" /\ tq.run.code_response = "blocks" /\ tq.run.raises = {}
  /\ tq.run.modified = 0 /\ tq.run.lint_success
  /\ tq.result.status = "SUCCESS" /\ "commit" \notin tq.ran
  /\ tq.result.files_changed = 0
C33_WitnessWarn ==
  /\ tq.pc = "ended" /\ tq.run.code_response = "blocks" /\ tq.run.raises = {}
  /\ tq.run.modified = 2 /\ ~tq.run.lint_success
  /\ tq.result.status = "WARN" /\ "commit" \in tq.ran
  /\ tq.result.files_changed = 2

\* C34: a feature branch or a worktree directory left by an earlier attempt
\* does not make the setup fail, and the call on such a workspace ends as
\* the same call on a workspace without them: the branch and the worktree
\* are set up, and the result, the branch and the worktree are those of a
\* first attempt.
C34_SetupIdempotent ==
  (tq.pc = "ended" /\ tq.run.raises \cap {"branch", "worktree"} = {})
    => /\ {"branch", "worktree"} \subseteq tq.ran
       /\ tq.result
            = process_task(tq.id, EffectiveRun(FirstAttempt, tq.run)).result
       /\ tq.heads = task_effects(FirstAttempt, tq.run).heads
       /\ tq.wt = task_effects(FirstAttempt, tq.run).wt
       /\ tq.ran = task_effects(FirstAttempt, tq.run).ran
C34_Witness ==
  /\ tq.pc = "ended" /\ tq.pre = [heads |-> "ahead", wt |-> "dir"]
  /\ tq.run.raises = {} /\ tq.run.code_response = "blocks"
  /\ tq.run.modified = 1
  /\ tq.result.status \in {"SUCCESS", "WARN"}
  /\ tq.heads = "ahead" /\ tq.wt = "clean"


\* the results a merge may take: SUCCESS or WARN, the branch in the repository
EligibleIds(rs, brs) ==
  {rs[i].id : i \in {j \in 1..Len(rs) : Mergeable(rs[j].status)}} \cap brs

\* C35: a result whose branch is not in the repository is never merged and
\* never enters merged_branches, and integration goes on. On a resume into
\* phase 4 the preparation downgrades every such result to ERROR and leaves
\* it out of the merge list, which still holds every other result that is
\* SUCCESS or WARN and not yet merged; an iteration of the merge loop that
\* meets a missing branch adds nothing to merged_branches and passes to the
\* next entry of the list, or to verification after the last.
C35_MissingBranchSkipped ==
  [][(hpc = "none" /\ hpc' = "none" /\ ~ctx.interrupted)
       => /\ (pc = "phase4" /\ pc' # "phase4" /\ resume_from_phase = 4)
               => /\ \A i \in 1..Len(results) :
                       results[i].id \notin branches
                         => /\ results'[i].status = "ERROR"
                            /\ results'[i].id \notin Range(mergeTodo')
                  /\ EligibleIds(results, branches) \ merged_branches'
                       \subseteq Range(mergeTodo')
                  /\ pc' \in {"merge", "verify"}
          /\ (pc = "merge" /\ mergeTodo' # mergeTodo)
               => /\ mergeTodo' = Tail(mergeTodo)
                  /\ Head(mergeTodo) \notin branches
                       => merged_branches' = merged_branches
                  /\ merged_branches' \ merged_branches \subseteq branches
                  /\ pc' = IF Tail(mergeTodo) = <<>> THEN "verify" ELSE "merge"]_vars
C35_Witness ==
  /\ pc = "verify" /\ hpc = "none" /\ ~ctx.interrupted
  /\ resume_from_phase = 5 /\ branches = {} /\ merged_branches = {}
  /\ 4 \in obs.did
  /\ \E i \in 1..Len(results) : Mergeable(results[i].status)
C35_WitnessDowngraded ==
  /\ pc \in {"merge", "verify"} /\ hpc = "none" /\ ~ctx.interrupted
  /\ resume_from_phase = 4 /\ merged_branches = {}
  /\ \E i \in 1..Len(results) :
       /\ results[i].status = "ERROR" /\ results[i].id \notin branches
       /\ statusOracle[results[i].id] # "ERROR"


\* C36: when a resumed run that skips phase 3 reaches phase 4, the feature
\* branch of every result the checkpoint records as SUCCESS or WARN exists
\* in the target repository.
C36_BranchesSurviveResume ==
  (pc = "phase4" /\ hpc = "none" /\ ~ctx.interrupted /\ resume_from_phase >= 4)
    => \A i \in 1..Len(results) :
         Mergeable(results[i].status) => results[i].id \in branches


\* C37: once a run started without resume has saved its phase-1 checkpoint,
\* the stored document holds no phase-2, phase-3 or phase-4 state and no
\* completed phase other than phase 1, whatever checkpoint was there before.
C37_FreshStartDropsOldState ==
  (pc = "post1" /\ hpc = "none" /\ ~ctx.interrupted /\ ~resume)
    => /\ ckptFile.st = "ok"
       /\ DOMAIN ckptFile.data
            \cap {"phase_2_state", "phase_3_state", "phase_4_state"} = {}
       /\ get_phases_completed(ckptFile) = {1}


\* C38: once a run has planned and saved phase 2, the task list stored in
\* phase_2_state.plan_data is the task list the run goes on to dispatch,
\* also when the review replaced the tasks by a refined plan.
C38_SavedPlanIsDispatchedPlan ==
  (pc = "phase3" /\ hpc = "none" /\ ~ctx.interrupted /\ resume_from_phase <= 2
     /\ ckptFile.st = "ok")
    => ckptFile.data.phase_2_state.plan_data.tasks = tasks


\* C39: a fresh planning phase saves no phase-2 checkpoint and enters no
\* phase 3 with an empty task list: when the final plan, after the review,
\* has no tasks, the run has exited before the save and the dispatch.
C39_NoEmptyPlanDispatched ==
  /\ get_current_phase(pq.file) = 2 => pq.tasks # {}
  /\ pq.pc \in {"phase3", "dispatched"} => pq.tasks # {}


\* C40: the test_attempt stored in the phase-4 checkpoint is the number of
\* runs of the test gate the verification loop of the run performed.
C40_TestAttemptCountsRuns ==
  vq.pc = "done"
    => load_checkpoint(vq.file).d.phase_4_state.test_attempt = Len(vq.tests)

====
